---- MODULE Spec2Model ----
(* Verification model of the preference personalisation pipeline:          *)
(*   - AdvancedEdgeCaseHandler  (src/src/backend/utils/advanced_edge_case_handler.py) *)
(*   - ResponseAdaptationEngine (src/src/backend/utils/response_adaptation_engine.py) *)
(* Handler confidences are integers in thousandths (0.5 is 500); engine    *)
(* confidences are tenths, size weights are multiples of 1/SWScale.        *)
EXTENDS Integers, Sequences, FiniteSets, TLC

VARIABLES
    recovery_statistics,  \* handler.recovery_statistics: total_edge_cases, successful_recoveries, fallback_usage
    fallback_cache,       \* handler.fallback_cache: set of entries [key, timestamp, result]
    now,                  \* the wall clock read by datetime.now(), in ticks (TicksPerHour per hour)
    faults,               \* names of the handler methods made to raise (fault injection)
    call,                 \* the (input_data, preferences, context) triple of the current call
    result,               \* the EdgeCaseResult of the last call (or the state before any call)
    pc,                   \* position of the sequential caller
    ncalls,               \* number of handle_edge_cases calls made so far
    tstate,               \* per thread: position and locals of a concurrent handle_edge_cases call
    response,             \* the original_response handed to adapt_response
    blocks,               \* the content blocks parsed from the response
    signal,               \* the preference signal handed to the adaptation engine
    adapted,              \* the blocks right after _apply_preference_adaptations
    output,               \* the blocks returned by adapt_response (reordered)
    outcome,              \* how adapt_response ended: adapted, fallback or raised
    user_input,           \* the text handed to parse_user_preference (a sequence of characters)
    parsed,               \* the result of the last parse_user_preference call
    parsing_history,      \* parser.parsing_history
    formatted_response,   \* the formatted response handed to and returned by _handle_edge_cases
    preference_result     \* the preference and confidence the formatter's detector reported

vars == <<recovery_statistics, fallback_cache, now, faults, call, result, pc, ncalls,
          tstate, response, blocks, signal, adapted, output, outcome,
          user_input, parsed, parsing_history,
                   formatted_response, preference_result>>

-----------------------------------------------------------------------------
(* Values *)

Absent == "absent"       \* a key that is not present / Python None
NoConf == 0 - 1          \* no numeric confidence present

ValidPreferences == {"visual", "text", "mixed", "unclear"}
ValidIntensities == {"low", "medium", "high"}

\* FallbackStrategy enum
Strategies == {"default_mixed", "content_analysis", "historical_preference",
               "graceful_degradation", "error_display", "minimal_response"}

\* the recovery action tags dispatched by _execute_recovery_actions
RecoveryActions == {"cache_fallback", "log_incident", "notify_monitoring", "cleanup_data"}

-----------------------------------------------------------------------------
(* input_data: None, a string (a sequence of characters followed by pad   *)
(* further letters), or a dict (keys present, and those with a non-empty   *)
(* value).                                                                 *)

NoneInput == [t |-> "none", s |-> <<>>, pad |-> 0, keys |-> {}, nonempty |-> {}]
StrInput(s, pad) == [t |-> "str", s |-> s, pad |-> pad, keys |-> {}, nonempty |-> {}]
DictInput(keys, nonempty) == [t |-> "dict", s |-> <<>>, pad |-> 0, keys |-> keys, nonempty |-> nonempty]

StrLen(x) == Len(x.s) + x.pad

\* str.count(ch)
Count(x, ch) == Cardinality({i \in 1..Len(x.s) : x.s[i] = ch})

\* str.strip() is empty: every character is whitespace
StripIsEmpty(x) == x.pad = 0 /\ \A i \in 1..Len(x.s) : x.s[i] = " "

\* Python truthiness of input_data
InputTruthy(x) ==
    CASE x.t = "none" -> FALSE
      [] x.t = "str"  -> StrLen(x) > 0
      [] x.t = "dict" -> x.keys # {}

\* dict.get(field) is truthy
InputGet(x, field) == field \in x.keys /\ field \in x.nonempty

(* preferences: None, a non-dict value, or a dict.                          *)
NonePrefs == [t |-> "none", has |-> {}, preference |-> Absent, confKind |-> "absent",
              confidence |-> NoConf, kwVisual |-> 0, kwText |-> 0,
              parsing_error |-> FALSE, fallback_used |-> FALSE]
OtherPrefs == [NonePrefs EXCEPT !.t = "other"]    \* a truthy non-dict, e.g. the string "visual"
DictPrefs(has, p, ck, c, kv, kt, pe, fu) ==
    [t |-> "dict", has |-> has, preference |-> p, confKind |-> ck, confidence |-> c,
     kwVisual |-> kv, kwText |-> kt, parsing_error |-> pe, fallback_used |-> fu]

PrefsTruthy(p) ==
    CASE p.t = "none"  -> FALSE
      [] p.t = "other" -> TRUE
      [] p.t = "dict"  -> p.has # {}

(* context: None, a non-dict value (an int), or a dict.                     *)
(* user_history: absent, a non-container, or a dict with recent_preferences *)
(* and/or preferred_format.                                                 *)
NoHistory == [t |-> "absent", has |-> {}, recentKind |-> "absent",
              recent |-> [preference |-> Absent, confidence |-> NoConf, intensity |-> Absent],
              preferred_format |-> Absent]
NoneContext == [t |-> "none", has |-> {}, processing_time |-> 0, memory_usage |-> 0,
                error_count |-> 0, user_history |-> NoHistory]
OtherContext == [NoneContext EXCEPT !.t = "other"]   \* a truthy non-container, e.g. 5
DictContext(has, pt, mu, ec, uh) ==
    [t |-> "dict", has |-> has, processing_time |-> pt, memory_usage |-> mu,
     error_count |-> ec, user_history |-> uh]

ContextTruthy(c) ==
    CASE c.t = "none"  -> FALSE
      [] c.t = "other" -> TRUE
      [] c.t = "dict"  -> c.has # {}

-----------------------------------------------------------------------------
(* The edge case rule table, in declaration order. *)

edge_case_rules ==
    << [case_type |-> "empty_input", fallback_strategy |-> "default_mixed", priority |-> 8,
        recovery_actions |-> <<"log_incident", "cache_fallback">>,
        user_message |-> "No preferences specified. Using balanced layout."],
       [case_type |-> "malformed_data", fallback_strategy |-> "graceful_degradation", priority |-> 9,
        recovery_actions |-> <<"cleanup_data", "log_incident">>,
        user_message |-> "Invalid data format detected. Using recovered settings."],
       [case_type |-> "conflicting_preferences", fallback_strategy |-> "content_analysis", priority |-> 7,
        recovery_actions |-> <<"log_incident">>,
        user_message |-> "Conflicting preferences detected. Using content-based analysis."],
       [case_type |-> "missing_content", fallback_strategy |-> "error_display", priority |-> 6,
        recovery_actions |-> <<"log_incident">>,
        user_message |-> "Some content is unavailable. Displaying what's available."],
       [case_type |-> "performance_degradation", fallback_strategy |-> "minimal_response", priority |-> 5,
        recovery_actions |-> <<"notify_monitoring", "log_incident">>,
        user_message |-> "Optimizing for performance. Using simplified layout."],
       [case_type |-> "parsing_error", fallback_strategy |-> "historical_preference", priority |-> 8,
        recovery_actions |-> <<"log_incident", "cleanup_data">>,
        user_message |-> "Unable to parse preferences. Using previous settings or defaults."] >>

(* Detection condition helpers.  Each helper wraps its body in try/except,  *)
(* so the value returned on an internal error is part of the definition.    *)

TooLong == 10000
SlowSeconds == 5
ManyErrors == 3
HeavyMemoryMB == 100
HighConfidence == 700

\* variant: "unclear" is left out of the accepted preference values
is_malformed_preferences_strict(p) ==
    IF ~PrefsTruthy(p) THEN FALSE
    ELSE IF p.t = "dict"
         THEN \/ ("preference" \in p.has /\ p.preference \notin {"visual", "text", "mixed"})
              \/ ("confidence" \in p.has
                    /\ (p.confKind # "num" \/ ~(0 <= p.confidence /\ p.confidence <= 1000)))
         ELSE TRUE

is_malformed_preferences(p) ==
    IF ~PrefsTruthy(p) THEN FALSE
    ELSE IF p.t = "dict"
         THEN \/ ("preference" \in p.has /\ p.preference \notin ValidPreferences)
              \/ ("confidence" \in p.has
                    /\ (p.confKind # "num" \/ ~(0 <= p.confidence /\ p.confidence <= 1000)))
         ELSE TRUE

has_invalid_format(x) ==
    x.t = "str" /\ (StrLen(x) > TooLong \/ Count(x, "{") # Count(x, "}"))

has_conflicting_preferences(p) ==
    IF p.t # "dict" THEN FALSE
    ELSE LET pref == IF "preference" \in p.has THEN p.preference ELSE Absent
             numeric == "confidence" \notin p.has \/ p.confKind = "num"
             confidence == IF "confidence" \in p.has THEN p.confidence ELSE 500
         IN  \* comparing a non-numeric confidence raises TypeError: except -> True
             IF pref \in {"visual", "text"} /\ ~numeric THEN TRUE
             ELSE \/ (pref = "visual" /\ confidence > HighConfidence /\ p.kwText > p.kwVisual * 2)
                  \/ (pref = "text" /\ confidence > HighConfidence /\ p.kwVisual > p.kwText * 2)

content_fields == {"text_response", "chart_data", "data", "summary"}

has_missing_content(x, c) ==
    \/ (~InputTruthy(x) /\ ~ContextTruthy(c))
    \/ (x.t = "dict" /\ \A f \in content_fields : ~InputGet(x, f))

is_performance_degraded(c) ==
    c.t = "dict" /\ \/ ("processing_time" \in c.has /\ c.processing_time > SlowSeconds)
                    \/ ("memory_usage" \in c.has /\ c.memory_usage > HeavyMemoryMB)
                    \/ ("error_count" \in c.has /\ c.error_count > ManyErrors)

has_parsing_errors(p) ==
    p.t = "dict" /\ \/ p.parsing_error
                    \/ p.fallback_used
                    \/ ("confidence" \in p.has /\ p.confKind = "num" /\ p.confidence = 0)

\* the detection_conditions of rule i: the rule matches if any condition is true
RuleMatches(i, x, p, c) ==
    CASE i = 1 -> \/ ~InputTruthy(x) \/ (x.t = "str" /\ StripIsEmpty(x))
                  \/ p.t = "none"
      [] i = 2 -> is_malformed_preferences(p) \/ has_invalid_format(x)
      [] i = 3 -> has_conflicting_preferences(p)
      [] i = 4 -> has_missing_content(x, c)
      [] i = 5 -> is_performance_degraded(c)
      [] i = 6 -> has_parsing_errors(p)

\* _detect_edge_cases: the indices of the matching rules, in declaration order
RECURSIVE DetectFrom(_, _, _, _)
DetectFrom(i, x, p, c) ==
    IF i > Len(edge_case_rules) THEN <<>>
    ELSE (IF RuleMatches(i, x, p, c) THEN <<i>> ELSE <<>>) \o DetectFrom(i + 1, x, p, c)

detect_edge_cases(x, p, c) == DetectFrom(1, x, p, c)

\* variant: among equal priorities the last declared rule wins
RECURSIVE MaxByPriorityLast(_)
MaxByPriorityLast(cases) ==
    IF Len(cases) = 1 THEN cases[1]
    ELSE LET rest == MaxByPriorityLast(Tail(cases))
         IN IF edge_case_rules[rest].priority >= edge_case_rules[cases[1]].priority
            THEN rest ELSE cases[1]

\* max(detected_cases, key=priority): Python's max returns the first maximal element
RECURSIVE MaxByPriority(_)
MaxByPriority(cases) ==
    IF Len(cases) = 1 THEN cases[1]
    ELSE LET rest == MaxByPriority(Tail(cases))
         IN IF edge_case_rules[rest].priority > edge_case_rules[cases[1]].priority
            THEN rest ELSE cases[1]

-----------------------------------------------------------------------------
(* Fallback strategies.  A payload is the fallback_data dict; a handler     *)
(* outcome is [raised, data].                                               *)

Payload(pref, conf, intensity, strategy, emergency) ==
    [preference |-> pref, confidence |-> conf, intensity |-> intensity,
     fallback_strategy |-> strategy, emergency |-> emergency]

EmptyPayload == Payload(Absent, NoConf, Absent, Absent, FALSE)     \* fallback_data = {}

Returned(data) == [raised |-> FALSE, data |-> data]
Raised == [raised |-> TRUE, data |-> EmptyPayload]

fallback_default_mixed == Payload("mixed", 500, "medium", "default_mixed", FALSE)

\* the keys probed by _analyze_content_structure
ChartKeys == {"chart_data"}         \* keys whose text contains chart/graph/plot/visualization
TextKeys == {"text", "content", "message", "description"}
LongText == 50

analyze_content_structure(x) ==
    [has_charts |-> x.t = "dict" /\ x.keys \cap ChartKeys # {},
     has_text   |-> \/ (x.t = "dict" /\ x.keys \cap TextKeys # {})
                    \/ (x.t = "str" /\ StrLen(x) > LongText)]

fallback_content_analysis(x) ==
    LET a == analyze_content_structure(x)
    IN  IF a.has_charts /\ ~a.has_text THEN Payload("visual", 700, "medium", "content_analysis", FALSE)
        ELSE IF a.has_text /\ ~a.has_charts THEN Payload("text", 700, "medium", "content_analysis", FALSE)
        ELSE Payload("mixed", 600, "medium", "content_analysis", FALSE)

\* _extract_historical_preference: [kind, value]; kind is "none", "nonmapping",
\* "emptymapping" or "mapping"
HistNone == [kind |-> "none", value |-> [preference |-> Absent, confidence |-> NoConf, intensity |-> Absent]]

extract_historical_preference(uh) ==
    IF uh.t # "dict" THEN HistNone       \* "in" on a non-container raises: except -> None
    ELSE IF "recent_preferences" \in uh.has /\ uh.recentKind # "absent"
         THEN [kind |-> uh.recentKind, value |-> uh.recent]      \* recent[0]
         ELSE IF "preferred_format" \in uh.has
              THEN [kind |-> "mapping",
                    value |-> [preference |-> uh.preferred_format, confidence |-> 600,
                               intensity |-> "medium"]]
              ELSE HistNone

\* f: the methods made to raise; the handler calls self._fallback_default_mixed
fallback_historical_preference(c, f) ==
    IF c.t = "other" THEN Raised         \* "user_history" in 5 raises TypeError
    ELSE LET h == IF ContextTruthy(c) /\ "user_history" \in c.has
                  THEN extract_historical_preference(c.user_history)
                  ELSE HistNone
         IN  CASE h.kind \in {"none", "emptymapping"} ->
                    IF "default_mixed" \in f THEN Raised ELSE Returned(fallback_default_mixed)
               [] h.kind = "nonmapping" -> Raised        \* {**historical_pref} raises TypeError
               [] h.kind = "mapping" ->
                    Returned(Payload(h.value.preference, h.value.confidence, h.value.intensity,
                                     "historical_preference", FALSE))

\* _salvage_preference_data: the salvaged preference and confidence (Absent / NoConf if not salvaged)
salvage_preference_data(p) ==
    IF ~PrefsTruthy(p) \/ p.t # "dict"
    THEN [preference |-> Absent, confidence |-> NoConf]
    ELSE [preference |-> IF "preference" \in p.has /\ p.preference \in ValidPreferences
                         THEN p.preference ELSE Absent,
          confidence |-> IF "confidence" \in p.has /\ p.confKind = "num"
                            /\ 0 <= p.confidence /\ p.confidence <= 1000
                         THEN p.confidence ELSE NoConf]

Max(a, b) == IF a >= b THEN a ELSE b
Min(a, b) == IF a <= b THEN a ELSE b

DegradedFloor == 300
DefaultSalvagedConfidence == 500

fallback_graceful_degradation(p) ==
    LET sv == salvage_preference_data(p)
        conf == IF sv.confidence = NoConf THEN DefaultSalvagedConfidence ELSE sv.confidence
    IN  Payload(IF sv.preference = Absent THEN "mixed" ELSE sv.preference,
                Max(DegradedFloor, (conf * 7) \div 10), "low", "graceful_degradation", FALSE)

fallback_error_display == Payload("mixed", 400, "medium", "error_display", FALSE)

fallback_minimal_response == Payload("mixed", 300, "low", "minimal_response", FALSE)

create_minimal_fallback == Payload("mixed", 300, "low", Absent, TRUE)

\* the handler registered for a strategy, run under fault set f
RunHandler(strategy, x, p, c, f) ==
    IF strategy \in f THEN Raised
    ELSE CASE strategy = "default_mixed" -> Returned(fallback_default_mixed)
           [] strategy = "content_analysis" -> Returned(fallback_content_analysis(x))
           [] strategy = "historical_preference" -> fallback_historical_preference(c, f)
           [] strategy = "graceful_degradation" -> Returned(fallback_graceful_degradation(p))
           [] strategy = "error_display" -> Returned(fallback_error_display)
           [] strategy = "minimal_response" -> Returned(fallback_minimal_response)

\* variant: the handler is called without the try/except around it
apply_fallback_strategy_uncaught(strategy, x, p, c, f) ==
    RunHandler(strategy, x, p, c, f)

\* try: handler(...)  except: _fallback_minimal_response(...)
apply_fallback_strategy(strategy, x, p, c, f) ==
    LET r == RunHandler(strategy, x, p, c, f)
    IN  IF r.raised THEN RunHandler("minimal_response", x, p, c, f) ELSE r

-----------------------------------------------------------------------------
(* Recovery actions, the fallback cache and the statistics.                 *)
(* The clock counts half hours.                                             *)

TicksPerHour == 2
CacheHours == 24

\* strftime('%Y%m%d_%H'): the hour the instant falls in
CacheKey(t) == t \div TicksPerHour

\* _cache_fallback_result at instant t
cache_fallback_result(cache, data, t) ==
    LET written == {e \in cache : e.key # CacheKey(t)}
                     \cup {[key |-> CacheKey(t), timestamp |-> t, result |-> data]}
        cutoff == t - CacheHours * TicksPerHour
    IN  {e \in written : e.timestamp > cutoff}

\* _execute_recovery_actions from position k on: every action is attempted,
\* a raising action only clears recovery_successful
RECURSIVE RecoverFrom(_, _, _, _, _, _)
RecoverFrom(actions, k, data, cache, t, f) ==
    IF k > Len(actions) THEN [ok |-> TRUE, cache |-> cache]
    ELSE LET a == actions[k]
             failed == a \in f
             cache1 == IF a = "cache_fallback" /\ ~failed
                       THEN cache_fallback_result(cache, data, t) ELSE cache
             rest == RecoverFrom(actions, k + 1, data, cache1, t, f)
         IN  [ok |-> rest.ok /\ ~failed, cache |-> rest.cache]

\* variant: the loop stops at the first action that raises
RECURSIVE RecoverUntilFailure(_, _, _, _, _, _)
RecoverUntilFailure(actions, k, data, cache, t, f) ==
    IF k > Len(actions) THEN [ok |-> TRUE, cache |-> cache]
    ELSE IF actions[k] \in f THEN [ok |-> FALSE, cache |-> cache]
    ELSE RecoverUntilFailure(actions, k + 1, data,
                             IF actions[k] = "cache_fallback"
                             THEN cache_fallback_result(cache, data, t) ELSE cache, t, f)

execute_recovery_actions_aborting(actions, data, cache, t, f) == RecoverUntilFailure(actions, 1, data, cache, t, f)

execute_recovery_actions(actions, data, cache, t, f) == RecoverFrom(actions, 1, data, cache, t, f)

EmergencyMessage == "An unexpected error occurred. Displaying minimal response."

\* _handle_single_edge_case for rule number i
handle_single_edge_case(i, x, p, c, f, cache, t) ==
    LET rule == edge_case_rules[i]
        fb == apply_fallback_strategy(rule.fallback_strategy, x, p, c, f)
        rec == execute_recovery_actions(rule.recovery_actions, fb.data, cache, t, f)
    IN  IF ~fb.raised
        THEN [raised |-> FALSE, handled |-> TRUE, fallback_strategy |-> rule.fallback_strategy,
              recovery_successful |-> rec.ok, user_message |-> rule.user_message,
              fallback_data |-> fb.data, cache |-> rec.cache]
        ELSE \* except: ultimate fallback
             [raised |-> FALSE, handled |-> FALSE, fallback_strategy |-> "emergency_fallback",
              recovery_successful |-> FALSE, user_message |-> EmergencyMessage,
              fallback_data |-> create_minimal_fallback, cache |-> cache]

UsageKeys == Strategies \cup {"emergency_fallback"}

EmptyUsage == [k \in {} |-> 0]       \* fallback_usage = {}

InitStatistics ==
    [total_edge_cases |-> 0, successful_recoveries |-> 0, fallback_usage |-> EmptyUsage]

\* usage[key] = value
SetUsage(usage, key, value) ==
    [k \in DOMAIN usage \cup {key} |-> IF k = key THEN value ELSE usage[k]]

\* variant: every counted call is counted as a successful recovery
update_statistics_optimistic(stats, h) ==
    LET fs == h.fallback_strategy
        usage0 == IF fs \notin DOMAIN stats.fallback_usage
                  THEN SetUsage(stats.fallback_usage, fs, 0) ELSE stats.fallback_usage
    IN  [total_edge_cases |-> stats.total_edge_cases + 1,
         successful_recoveries |-> stats.successful_recoveries + 1,
         fallback_usage |-> SetUsage(usage0, fs, usage0[fs] + 1)]

\* _update_statistics
update_statistics(stats, h) ==
    LET fs == h.fallback_strategy
        usage0 == IF fs \notin DOMAIN stats.fallback_usage
                  THEN SetUsage(stats.fallback_usage, fs, 0) ELSE stats.fallback_usage
    IN  [total_edge_cases |-> stats.total_edge_cases + 1,
         successful_recoveries |-> stats.successful_recoveries + (IF h.recovery_successful THEN 1 ELSE 0),
         fallback_usage |-> SetUsage(usage0, fs, usage0[fs] + 1)]

NoResult ==
    [raised |-> FALSE, case_detected |-> Absent, handled |-> FALSE, fallback_applied |-> Absent,
     recovery_successful |-> FALSE, user_message |-> Absent, fallback_data |-> EmptyPayload,
     detected |-> <<>>]

PassThrough ==
    [raised |-> FALSE, case_detected |-> "unknown_format", handled |-> FALSE,
     fallback_applied |-> "none", recovery_successful |-> TRUE,
     user_message |-> "No edge cases detected", fallback_data |-> EmptyPayload, detected |-> <<>>]

CriticalMessage == "A critical error occurred. Please try again or contact support."

create_critical_error_response ==
    [raised |-> FALSE, case_detected |-> "unknown_format", handled |-> FALSE,
     fallback_applied |-> "critical_error_fallback", recovery_successful |-> FALSE,
     user_message |-> CriticalMessage, fallback_data |-> create_minimal_fallback,
     detected |-> <<>>]

\* the EdgeCaseResult built from the primary case and its handling result
edge_case_result(primary, detected, h) ==
    [raised |-> FALSE,
     case_detected |-> edge_case_rules[primary].case_type,
     handled |-> h.handled,
     fallback_applied |-> h.fallback_strategy,
     recovery_successful |-> h.recovery_successful,
     user_message |-> h.user_message,
     fallback_data |-> h.fallback_data,
     detected |-> detected]

\* variant: no except clause around the body, an exception reaches the caller
handle_edge_cases_unguarded(x, p, c, f, stats, cache, t) ==
    LET detected == detect_edge_cases(x, p, c)
    IN  IF detected = <<>>
        THEN [result |-> PassThrough, stats |-> stats, cache |-> cache]
        ELSE LET primary == MaxByPriority(detected)
                 h == handle_single_edge_case(primary, x, p, c, f, cache, t)
             IN  IF h.raised \/ "update_statistics" \in f
                 THEN [result |-> [NoResult EXCEPT !.raised = TRUE],
                       stats |-> stats, cache |-> h.cache]
                 ELSE [result |-> edge_case_result(primary, detected, h),
                       stats |-> update_statistics(stats, h),
                       cache |-> h.cache]

\* variant: the pass-through call is counted as an edge case too
handle_edge_cases_counting(x, p, c, f, stats, cache, t) ==
    LET detected == detect_edge_cases(x, p, c)
    IN  IF detected = <<>>
        THEN [result |-> PassThrough,
              stats |-> [stats EXCEPT !.total_edge_cases = @ + 1], cache |-> cache]
        ELSE LET primary == MaxByPriority(detected)
                 h == handle_single_edge_case(primary, x, p, c, f, cache, t)
             IN  IF h.raised \/ "update_statistics" \in f
                 THEN [result |-> create_critical_error_response,
                       stats |-> stats, cache |-> h.cache]
                 ELSE [result |-> edge_case_result(primary, detected, h),
                       stats |-> update_statistics(stats, h),
                       cache |-> h.cache]

\* handle_edge_cases at instant t: the EdgeCaseResult and the handler state it leaves
handle_edge_cases(x, p, c, f, stats, cache, t) ==
    LET detected == detect_edge_cases(x, p, c)
    IN  IF detected = <<>>
        THEN [result |-> PassThrough, stats |-> stats, cache |-> cache]
        ELSE LET primary == MaxByPriority(detected)
                 h == handle_single_edge_case(primary, x, p, c, f, cache, t)
             IN  IF h.raised \/ "update_statistics" \in f
                 THEN \* an exception inside the try block: except Exception -> critical error response
                      [result |-> create_critical_error_response,
                       stats |-> stats, cache |-> h.cache]
                 ELSE [result |-> edge_case_result(primary, detected, h),
                       stats |-> update_statistics(stats, h),
                       cache |-> h.cache]

-----------------------------------------------------------------------------
(* The values the calls are made with. *)

\* AdvancedPreferenceParser._create_empty_response: the parser's output for "" and "   "
ParserEmptyOutput ==
    DictPrefs({"preference", "confidence", "keywords_found", "intensity", "metadata"},
              "unclear", "num", 0, 0, 0, FALSE, FALSE)

PV == {"preference", "confidence", "keywords_found"}

InputSamples ==
    { NoneInput,
      StrInput(<<>>, 0),                       \* ""
      StrInput(<<" ">>, 0),                    \* " "
      StrInput(<<"a">>, 0),                    \* "a"
      StrInput(<<"{", "a">>, 0),               \* "{a": unbalanced braces
      StrInput(<<"a">>, 60),                   \* 61 letters
      StrInput(<<"a">>, TooLong),              \* 10001 letters
      DictInput({}, {}),                       \* {}
      DictInput({"text_response"}, {"text_response"}),
      DictInput({"chart_data", "text"}, {"chart_data", "text"}),
      DictInput({"chart_data"}, {}) }          \* {"chart_data": {}}

PreferenceSamples ==
    { NonePrefs,
      OtherPrefs,
      DictPrefs({}, Absent, "absent", NoConf, 0, 0, FALSE, FALSE),                 \* {}
      ParserEmptyOutput,
      DictPrefs(PV, "visual", "num", 900, 1, 0, FALSE, FALSE),
      DictPrefs(PV, "visual", "num", 900, 0, 1, FALSE, FALSE),                      \* conflicting
      DictPrefs({"preference", "confidence"}, "invalid_type", "num", 2000, 0, 0, FALSE, FALSE),
      DictPrefs({"preference", "confidence"}, "text", "str", NoConf, 0, 0, FALSE, FALSE),
      DictPrefs(PV \cup {"metadata"}, "mixed", "num", 500, 0, 0, TRUE, FALSE),      \* parsing_error
      DictPrefs({"preference"}, "visual", "absent", NoConf, 0, 0, FALSE, FALSE),
      DictPrefs(PV, "text", "num", 500, 0, 1, FALSE, FALSE) }

History(has, rk, rp, rc, ri, pf) ==
    [t |-> "dict", has |-> has, recentKind |-> rk,
     recent |-> [preference |-> rp, confidence |-> rc, intensity |-> ri],
     preferred_format |-> pf]

HistorySamples ==
    { [NoHistory EXCEPT !.t = "other"],                                            \* user_history = 5
      History({"preferred_format"}, "absent", Absent, NoConf, Absent, "visual"),
      History({"preferred_format"}, "absent", Absent, NoConf, Absent, "banana"),
      History({"recent_preferences"}, "nonmapping", Absent, NoConf, Absent, Absent),   \* ["visual"]
      History({"recent_preferences"}, "mapping", "text", 800, "high", Absent),
      History({"recent_preferences"}, "mapping", Absent, NoConf, Absent, Absent),      \* [{"x": 1}]
      History({"recent_preferences", "preferred_format"}, "emptymapping", Absent, NoConf, Absent, "text") }

ContextSamples ==
    { NoneContext,
      OtherContext,
      DictContext({}, 0, 0, 0, NoHistory),                                          \* {}
      DictContext({"processing_time", "error_count"}, 10, 0, 5, NoHistory),
      DictContext({"error_count"}, 0, 0, 1, NoHistory) }
    \cup { DictContext({"user_history"}, 0, 0, 0, uh) : uh \in HistorySamples }

\* the sets of methods a run makes raise
FaultSets ==
    { {} } \cup { {m} : m \in Strategies \cup RecoveryActions \cup {"update_statistics"} }
           \cup { {m, "minimal_response"} : m \in Strategies \ {"minimal_response"} }
           \cup { {m, "log_incident"} : m \in {"historical_preference", "cache_fallback"} }

Call(x, p, c) == [input |-> x, preferences |-> p, context |-> c]

NoCall == Call(NoneInput, NonePrefs, NoneContext)

-----------------------------------------------------------------------------
(* State not used by a specification keeps these values. *)

IdleThreads == <<>>
IdleAdaptation == <<>>
IdleResponse == <<>>
IdleSignal == [preference |-> Absent, confidence |-> NoConf, intensity |-> Absent]

NoParse == [preference |-> Absent, confidence |-> NoConf, intensity |-> Absent]

ParserIdle == user_input = <<>> /\ parsed = NoParse /\ parsing_history = <<>>
NoFormatted == [formatting_type |-> Absent]
NoDetection == [preference |-> Absent, confidence |-> NoConf]
FormatterIdle == formatted_response = NoFormatted /\ preference_result = NoDetection

AdaptIdle ==
    /\ response = IdleResponse
    /\ blocks = IdleAdaptation /\ signal = IdleSignal
    /\ adapted = IdleAdaptation /\ output = IdleAdaptation
    /\ outcome = "idle"
    /\ ParserIdle
    /\ FormatterIdle

-----------------------------------------------------------------------------
(* CallSpec: one handle_edge_cases call on a freshly constructed handler,   *)
(* for every sample triple and every fault set.                             *)

CallInit ==
    /\ recovery_statistics = InitStatistics
    /\ fallback_cache = {}
    /\ now = 0
    /\ faults \in FaultSets
    /\ call \in {Call(x, p, c) : x \in InputSamples, p \in PreferenceSamples, c \in ContextSamples}
    /\ result = NoResult
    /\ pc = "ready"
    /\ ncalls = 0
    /\ tstate = IdleThreads
    /\ AdaptIdle

HandleCall ==
    /\ pc = "ready"
    /\ LET r == handle_edge_cases(call.input, call.preferences, call.context, faults,
                                  recovery_statistics, fallback_cache, now)
       IN  /\ result' = r.result
           /\ recovery_statistics' = r.stats
           /\ fallback_cache' = r.cache
    /\ pc' = "done"
    /\ ncalls' = ncalls + 1
    /\ UNCHANGED <<now, faults, call, tstate, response, blocks, signal, adapted, output, outcome,
                   user_input, parsed, parsing_history,
                   formatted_response, preference_result>>

CallNext == HandleCall

CallSpec == CallInit /\ [][CallNext]_vars

-----------------------------------------------------------------------------
(* Spec: a sequence of handle_edge_cases calls on one handler, the clock    *)
(* advancing between calls.                                                 *)

MaxCalls == 2

\* half hours that pass before a call: none, half an hour, more than a day
Delays == {0, 1, CacheHours * TicksPerHour + 1}

SeqInputs == { StrInput(<<>>, 0), StrInput(<<"a">>, 0), DictInput({"chart_data"}, {}) }

SeqPreferences ==
    { NonePrefs, ParserEmptyOutput,
      DictPrefs(PV, "visual", "num", 900, 1, 0, FALSE, FALSE),
      DictPrefs({"preference", "confidence"}, "invalid_type", "num", 2000, 0, 0, FALSE, FALSE) }

SeqContexts ==
    { NoneContext,
      DictContext({"error_count"}, 0, 0, 1, NoHistory),
      DictContext({"processing_time", "error_count"}, 10, 0, 5, NoHistory) }

Init ==
    /\ recovery_statistics = InitStatistics
    /\ fallback_cache = {}
    /\ now = 0
    /\ faults = {}
    /\ call = NoCall
    /\ result = NoResult
    /\ pc = "idle"
    /\ ncalls = 0
    /\ tstate = IdleThreads
    /\ AdaptIdle

HandleEdgeCases ==
    /\ ncalls < MaxCalls
    /\ \E x \in SeqInputs, p \in SeqPreferences, c \in SeqContexts, d \in Delays :
         LET r == handle_edge_cases(x, p, c, faults, recovery_statistics, fallback_cache, now + d)
         IN  /\ now' = now + d
             /\ call' = Call(x, p, c)
             /\ result' = r.result
             /\ recovery_statistics' = r.stats
             /\ fallback_cache' = r.cache
    /\ ncalls' = ncalls + 1
    /\ UNCHANGED <<faults, pc, tstate, response, blocks, signal, adapted, output, outcome,
                   user_input, parsed, parsing_history,
                   formatted_response, preference_result>>

Next == HandleEdgeCases

Spec == Init /\ [][Next]_vars

-----------------------------------------------------------------------------
(* Properties of a handle_edge_cases call. *)

EdgeCaseTypes ==
    {"empty_input", "malformed_data", "conflicting_preferences", "missing_content",
     "performance_degradation", "invalid_configuration", "network_failure",
     "parsing_error", "rendering_failure", "unknown_format"}

RuleIndexes == 1..Len(edge_case_rules)

Matches(i) == RuleMatches(i, call.input, call.preferences, call.context)

SomeRuleMatches == \E i \in RuleIndexes : Matches(i)

\* rule i matches and no matching rule has a higher priority, or the same
\* priority and an earlier declaration
IsWinner(i) ==
    /\ Matches(i)
    /\ \A j \in RuleIndexes :
         Matches(j) => \/ edge_case_rules[j].priority < edge_case_rules[i].priority
                       \/ (edge_case_rules[j].priority = edge_case_rules[i].priority /\ j >= i)

\* the handler registered for the winning rule's strategy raises in this call
SelectedHandlerRaised ==
    \E i \in RuleIndexes :
        /\ IsWinner(i)
        /\ RunHandler(edge_case_rules[i].fallback_strategy,
                      call.input, call.preferences, call.context, faults).raised

IsMinimalPayload(d) ==
    d.preference = "mixed" /\ d.confidence = 300 /\ d.intensity = "low"

\* C1: every call, whatever the triple and whichever strategy handler or
\* recovery action raises inside, ends by returning an EdgeCaseResult; no
\* exception reaches the caller.
C1_ReturnsResult ==
    pc = "done" =>
        /\ ~result.raised
        /\ result.case_detected \in EdgeCaseTypes
        /\ result.handled \in BOOLEAN
        /\ result.recovery_successful \in BOOLEAN
        /\ result.fallback_applied \in UsageKeys \cup {"none", "critical_error_fallback"}

\* a call in which the selected strategy handler and a recovery action of the
\* winning rule both raised has returned
C1_Witness ==
    /\ pc = "done"
    /\ SelectedHandlerRaised
    /\ \E i \in RuleIndexes :
          /\ IsWinner(i)
          /\ \E k \in 1..Len(edge_case_rules[i].recovery_actions) :
                edge_case_rules[i].recovery_actions[k] \in faults
    /\ ~result.raised

\* C2 as stated: if the selected strategy handler raises, the result is the
\* emergency minimal response: handled = false, recovery_successful = false,
\* payload mixed with confidence 0.3.
C2_EmergencyOnHandlerFailure ==
    (pc = "done" /\ SelectedHandlerRaised) =>
        /\ ~result.handled
        /\ ~result.recovery_successful
        /\ result.fallback_data.preference = "mixed"
        /\ result.fallback_data.confidence = 300

\* C2 amended: if the selected strategy handler raises, the payload is the
\* minimal one (mixed, 0.3, low).  The result is unhandled (and
\* recovery_successful false) exactly when a further step raises too: the
\* minimal_response handler or the statistics update.  Otherwise it is
\* handled, names the rule's own strategy, and recovery_successful tells
\* whether every recovery action of the rule ran without raising.
C2_MinimalPayloadOnHandlerFailure ==
    (pc = "done" /\ SelectedHandlerRaised) =>
        /\ IsMinimalPayload(result.fallback_data)
        /\ result.handled <=> (faults \cap {"minimal_response", "update_statistics"} = {})
        /\ ~result.handled => ~result.recovery_successful
        /\ result.handled =>
             \E i \in RuleIndexes :
                /\ IsWinner(i)
                /\ result.fallback_applied = edge_case_rules[i].fallback_strategy
                /\ result.recovery_successful <=>
                     \A k \in 1..Len(edge_case_rules[i].recovery_actions) :
                         edge_case_rules[i].recovery_actions[k] \notin faults

\* the historical_preference handler raised on a non-dict context with no
\* fault injected, and the call was handled with the minimal payload
C2_Witness ==
    /\ pc = "done"
    /\ faults = {}
    /\ SelectedHandlerRaised
    /\ result.handled
    /\ result.recovery_successful
    /\ result.fallback_applied = "historical_preference"
    /\ IsMinimalPayload(result.fallback_data)

\* C3: the handled rule is the matching rule of highest priority, the first
\* declared among equals; it gives case_detected, the fallback strategy and
\* the user message.
C3_HighestPriorityFirstDeclared ==
    (pc = "done" /\ result.handled) =>
        \E i \in RuleIndexes :
            /\ IsWinner(i)
            /\ result.case_detected = edge_case_rules[i].case_type
            /\ result.fallback_applied = edge_case_rules[i].fallback_strategy
            /\ result.user_message = edge_case_rules[i].user_message

\* empty_input and parsing_error (both priority 8) matched, nothing higher
\* did, and empty_input was handled
C3_Witness ==
    /\ pc = "done"
    /\ result.handled
    /\ Matches(1) /\ Matches(6) /\ ~Matches(2)
    /\ result.case_detected = "empty_input"
    /\ Len(result.detected) >= 2

C6_ValidFallbackSignal ==
    (pc = "done" /\ result.handled) =>
        /\ result.fallback_data.preference \in ValidPreferences
        /\ 0 <= result.fallback_data.confidence /\ result.fallback_data.confidence <= 1000
        /\ result.fallback_data.intensity \in ValidIntensities

\* C4: a call in which no rule matches returns the pass-through result and
\* leaves the statistics and the fallback cache as they were.
C4_PassThroughFrame ==
    [][ ( /\ ncalls' = ncalls + 1
          /\ detect_edge_cases(call'.input, call'.preferences, call'.context) = <<>> ) =>
            /\ ~result'.handled
            /\ result'.fallback_applied = "none"
            /\ result'.fallback_data = EmptyPayload
            /\ recovery_statistics' = recovery_statistics
            /\ fallback_cache' = fallback_cache ]_vars

\* a pass-through call made on a handler that already counted an edge case
\* and holds a cache entry
C4_Witness ==
    /\ ncalls >= 2
    /\ result.fallback_applied = "none"
    /\ recovery_statistics.total_edge_cases >= 1
    /\ fallback_cache # {}

-----------------------------------------------------------------------------
(* ConcSpec: handle_edge_cases called from several threads on the one       *)
(* module-level handler.  The code takes no lock, so the statements of      *)
(* _cache_fallback_result and _update_statistics of different calls         *)
(* interleave; an augmented assignment is a read followed by a write.       *)

NThreads == 2

Threads == 1..NThreads

ConcCalls ==
    { Call(StrInput(<<>>, 0), NonePrefs, NoneContext),                       \* ""
      Call(StrInput(<<"a">>, 0), OtherPrefs, NoneContext),
      Call(StrInput(<<"a">>, 0),
           DictPrefs(PV, "visual", "num", 900, 1, 0, FALSE, FALSE), NoneContext) }

ThreadStart(c) ==
    [pc |-> "start", call |-> c, rule |-> 0, data |-> EmptyPayload, ok |-> TRUE, k |-> 1,
     key |-> 0 - 1, cutoff |-> 0, snap |-> {}, rd |-> 0, absent |-> FALSE]

ThreadActions(t) == edge_case_rules[tstate[t].rule].recovery_actions

ThreadStrategy(t) == edge_case_rules[tstate[t].rule].fallback_strategy

ConcInit ==
    /\ recovery_statistics = InitStatistics
    /\ fallback_cache = {}
    /\ now = 0
    /\ faults = {}
    /\ call = NoCall
    /\ result = NoResult
    /\ pc = "threads"
    /\ ncalls = 0
    /\ tstate \in [Threads -> {ThreadStart(c) : c \in ConcCalls}]
    /\ AdaptIdle

ConcFrame == UNCHANGED <<faults, call, result, pc, ncalls, response, blocks, signal, adapted, output, outcome,
                   user_input, parsed, parsing_history,
                   formatted_response, preference_result>>

\* the hour of datetime.now() changes while the calls are running
HourTurns ==
    /\ pc = "threads"
    /\ now = 0
    /\ \E t \in Threads : tstate[t].pc # "done"
    /\ now' = TicksPerHour
    /\ UNCHANGED <<recovery_statistics, fallback_cache, tstate>>
    /\ ConcFrame

\* handle_edge_cases up to the strategy handler: detection, selection and
\* _apply_fallback_strategy touch no shared state
TDetect(t) ==
    /\ tstate[t].pc = "start"
    /\ LET c == tstate[t].call
           detected == detect_edge_cases(c.input, c.preferences, c.context)
       IN  IF detected = <<>>
           THEN tstate' = [tstate EXCEPT ![t].pc = "done"]
           ELSE LET i == MaxByPriority(detected)
                    fb == apply_fallback_strategy(edge_case_rules[i].fallback_strategy,
                                                  c.input, c.preferences, c.context, faults)
                IN  tstate' = [tstate EXCEPT ![t].pc = "recover", ![t].rule = i,
                                             ![t].data = fb.data]
    /\ UNCHANGED <<recovery_statistics, fallback_cache, now>>
    /\ ConcFrame

\* _execute_recovery_actions: the next action of the list
TRecover(t) ==
    /\ tstate[t].pc = "recover"
    /\ LET k == tstate[t].k
       IN  IF k > Len(ThreadActions(t))
           THEN tstate' = [tstate EXCEPT ![t].pc = "read_total"]
           ELSE IF ThreadActions(t)[k] = "cache_fallback"
           THEN tstate' = [tstate EXCEPT ![t].pc = "cache_write"]
           ELSE tstate' = [tstate EXCEPT ![t].k = k + 1]
    /\ UNCHANGED <<recovery_statistics, fallback_cache, now>>
    /\ ConcFrame

\* self.fallback_cache[cache_key] = {...}
TCacheWrite(t) ==
    /\ tstate[t].pc = "cache_write"
    /\ fallback_cache' = {e \in fallback_cache : e.key # CacheKey(now)}
                           \cup {[key |-> CacheKey(now), timestamp |-> now,
                                  result |-> tstate[t].data]}
    /\ tstate' = [tstate EXCEPT ![t].pc = "cache_filter", ![t].key = CacheKey(now),
                                ![t].cutoff = now - CacheHours * TicksPerHour]
    /\ UNCHANGED <<recovery_statistics, now>>
    /\ ConcFrame

\* the dict comprehension over self.fallback_cache.items()
TCacheFilter(t) ==
    /\ tstate[t].pc = "cache_filter"
    /\ tstate' = [tstate EXCEPT ![t].pc = "cache_assign",
                                ![t].snap = {e \in fallback_cache : e.timestamp > tstate[t].cutoff}]
    /\ UNCHANGED <<recovery_statistics, fallback_cache, now>>
    /\ ConcFrame

\* self.fallback_cache = <the filtered dict>
TCacheAssign(t) ==
    /\ tstate[t].pc = "cache_assign"
    /\ fallback_cache' = tstate[t].snap
    /\ tstate' = [tstate EXCEPT ![t].pc = "recover", ![t].k = tstate[t].k + 1]
    /\ UNCHANGED <<recovery_statistics, now>>
    /\ ConcFrame

\* self.recovery_statistics["total_edge_cases"] += 1, the read
TReadTotal(t) ==
    /\ tstate[t].pc = "read_total"
    /\ tstate' = [tstate EXCEPT ![t].pc = "write_total",
                                ![t].rd = recovery_statistics.total_edge_cases]
    /\ UNCHANGED <<recovery_statistics, fallback_cache, now>>
    /\ ConcFrame

\* ... and the write
TWriteTotal(t) ==
    /\ tstate[t].pc = "write_total"
    /\ recovery_statistics' = [recovery_statistics EXCEPT !.total_edge_cases = tstate[t].rd + 1]
    /\ tstate' = [tstate EXCEPT ![t].pc = IF tstate[t].ok THEN "read_successful"
                                          ELSE "check_usage"]
    /\ UNCHANGED <<fallback_cache, now>>
    /\ ConcFrame

\* self.recovery_statistics["successful_recoveries"] += 1, the read
TReadSuccessful(t) ==
    /\ tstate[t].pc = "read_successful"
    /\ tstate' = [tstate EXCEPT ![t].pc = "write_successful",
                                ![t].rd = recovery_statistics.successful_recoveries]
    /\ UNCHANGED <<recovery_statistics, fallback_cache, now>>
    /\ ConcFrame

TWriteSuccessful(t) ==
    /\ tstate[t].pc = "write_successful"
    /\ recovery_statistics' = [recovery_statistics EXCEPT !.successful_recoveries = tstate[t].rd + 1]
    /\ tstate' = [tstate EXCEPT ![t].pc = "check_usage"]
    /\ UNCHANGED <<fallback_cache, now>>
    /\ ConcFrame

\* if fallback_strategy not in self.recovery_statistics["fallback_usage"]
TCheckUsage(t) ==
    /\ tstate[t].pc = "check_usage"
    /\ LET missing == ThreadStrategy(t) \notin DOMAIN recovery_statistics.fallback_usage
       IN  tstate' = [tstate EXCEPT ![t].absent = missing,
                                    ![t].pc = IF missing THEN "init_usage" ELSE "read_usage"]
    /\ UNCHANGED <<recovery_statistics, fallback_cache, now>>
    /\ ConcFrame

\* self.recovery_statistics["fallback_usage"][fallback_strategy] = 0
TInitUsage(t) ==
    /\ tstate[t].pc = "init_usage"
    /\ recovery_statistics' = [recovery_statistics EXCEPT
           !.fallback_usage = SetUsage(@, ThreadStrategy(t), 0)]
    /\ tstate' = [tstate EXCEPT ![t].pc = "read_usage"]
    /\ UNCHANGED <<fallback_cache, now>>
    /\ ConcFrame

\* self.recovery_statistics["fallback_usage"][fallback_strategy] += 1, the read
TReadUsage(t) ==
    /\ tstate[t].pc = "read_usage"
    /\ tstate' = [tstate EXCEPT ![t].pc = "write_usage",
                                ![t].rd = recovery_statistics.fallback_usage[ThreadStrategy(t)]]
    /\ UNCHANGED <<recovery_statistics, fallback_cache, now>>
    /\ ConcFrame

TWriteUsage(t) ==
    /\ tstate[t].pc = "write_usage"
    /\ recovery_statistics' = [recovery_statistics EXCEPT
           !.fallback_usage = SetUsage(@, ThreadStrategy(t), tstate[t].rd + 1)]
    /\ tstate' = [tstate EXCEPT ![t].pc = "done"]
    /\ UNCHANGED <<fallback_cache, now>>
    /\ ConcFrame

ConcNext ==
    \/ HourTurns
    \/ \E t \in Threads : TDetect(t)
    \/ \E t \in Threads : TRecover(t)
    \/ \E t \in Threads : TCacheWrite(t)
    \/ \E t \in Threads : TCacheFilter(t)
    \/ \E t \in Threads : TCacheAssign(t)
    \/ \E t \in Threads : TReadTotal(t)
    \/ \E t \in Threads : TWriteTotal(t)
    \/ \E t \in Threads : TReadSuccessful(t)
    \/ \E t \in Threads : TWriteSuccessful(t)
    \/ \E t \in Threads : TCheckUsage(t)
    \/ \E t \in Threads : TInitUsage(t)
    \/ \E t \in Threads : TReadUsage(t)
    \/ \E t \in Threads : TWriteUsage(t)

ConcSpec == ConcInit /\ [][ConcNext]_vars

AllThreadsDone == pc = "threads" /\ \A t \in Threads : tstate[t].pc = "done"

MatchedThreads == {t \in Threads : tstate[t].rule # 0}

CachingThreads == {t \in Threads : tstate[t].key >= 0}

\* C7: when concurrent handle_edge_cases calls are over, total_edge_cases is
\* the number of calls in which a rule matched (no increment is lost) and the
\* cache holds an entry under the key of every call that wrote one (no cache
\* write is lost).
C7_NoLostUpdate ==
    AllThreadsDone =>
        /\ recovery_statistics.total_edge_cases = Cardinality(MatchedThreads)
        /\ \A t \in CachingThreads : \E e \in fallback_cache : e.key = tstate[t].key

-----------------------------------------------------------------------------
(* ResponseAdaptationEngine.  A size_weight w is the integer w * SWScale,   *)
(* a confidence is given in tenths, multipliers in tenths.                  *)

SWScale == 2000000

\* a length-derived or literal weight given in thousandths
Thousandths(n) == n * (SWScale \div 1000)

\* int(n / d) of Python: truncation toward zero
IntTrunc(n, d) == IF n >= 0 THEN n \div d ELSE 0 - ((0 - n) \div d)

ResponseTypes ==
    {"text_analysis", "chart_data", "mixed_content", "raw_data", "summary", "detailed_explanation"}

NoIndex == 0 - 1          \* metadata without "section_index"

\* ContentBlock as produced by the parsers (metadata not yet marked adapted)
ContentBlock(ct, content, priority, sw, index) ==
    [content_type |-> ct, content |-> content, priority |-> priority, size_weight |-> sw,
     section_index |-> index, adapted |-> FALSE, original_priority |-> 0,
     original_size_weight |-> 0, adaptation_rule |-> 0,
     confidence_applied |-> NoConf, intensity_applied |-> Absent]

\* a piece of text: its length, number of ". "-separated sentences, the
\* keyword it contains, and the form its content has been given
Text(len, sentences, word) == [len |-> len, sentences |-> sentences, word |-> word, form |-> "plain"]

\* _initialize_adaptation_rules (multipliers in tenths, thresholds in tenths)
adaptation_rules ==
    << [preference_type |-> "visual", content_type |-> "chart_data", priority_boost |-> 3,
        size_multiplier |-> 15, position_preference |-> "top", visibility_threshold |-> 8],
       [preference_type |-> "visual", content_type |-> "summary", priority_boost |-> 2,
        size_multiplier |-> 12, position_preference |-> "top", visibility_threshold |-> 9],
       [preference_type |-> "visual", content_type |-> "text_analysis", priority_boost |-> 0 - 1,
        size_multiplier |-> 8, position_preference |-> "bottom", visibility_threshold |-> 6],
       [preference_type |-> "text", content_type |-> "detailed_explanation", priority_boost |-> 3,
        size_multiplier |-> 14, position_preference |-> "top", visibility_threshold |-> 9],
       [preference_type |-> "text", content_type |-> "summary", priority_boost |-> 2,
        size_multiplier |-> 12, position_preference |-> "top", visibility_threshold |-> 8],
       [preference_type |-> "text", content_type |-> "chart_data", priority_boost |-> 0 - 2,
        size_multiplier |-> 7, position_preference |-> "bottom", visibility_threshold |-> 4],
       [preference_type |-> "mixed", content_type |-> "mixed_content", priority_boost |-> 1,
        size_multiplier |-> 10, position_preference |-> "middle", visibility_threshold |-> 7],
       [preference_type |-> "mixed", content_type |-> "summary", priority_boost |-> 2,
        size_multiplier |-> 11, position_preference |-> "top", visibility_threshold |-> 8] >>

\* the smallest element of a non-empty set of rule indexes: the first declared
FirstOf(S) == CHOOSE i \in S : \A j \in S : i <= j

\* _find_matching_rule without its second loop
find_matching_rule_exact(content_type, preference_type) ==
    LET exact == {i \in DOMAIN adaptation_rules :
                     /\ adaptation_rules[i].preference_type = preference_type
                     /\ adaptation_rules[i].content_type = content_type}
    IN  IF exact # {} THEN FirstOf(exact) ELSE 0

\* _find_matching_rule: index of the rule, 0 for None
find_matching_rule(content_type, preference_type) ==
    LET exact == {i \in DOMAIN adaptation_rules :
                     /\ adaptation_rules[i].preference_type = preference_type
                     /\ adaptation_rules[i].content_type = content_type}
        same == {i \in DOMAIN adaptation_rules :
                     adaptation_rules[i].preference_type = preference_type}
    IN  IF exact # {} THEN FirstOf(exact)
        ELSE IF same # {} THEN FirstOf(same)
        ELSE 0

ScannableSentences == 3
ConnectiveLength == 200

\* _adapt_block_content
adapt_block_content(content, preference_type, rule) ==
    IF preference_type = "visual" /\ rule.content_type = "text_analysis"
    THEN \* _make_text_scannable
         IF content.sentences > ScannableSentences
         THEN [content EXCEPT !.form = "key_points"] ELSE content
    ELSE IF preference_type = "text" /\ rule.content_type = "chart_data"
    THEN \* _add_chart_description
         [content EXCEPT !.form = "chart_description"]
    ELSE IF preference_type = "mixed"
    THEN \* _add_connective_elements: "Overview: " + content
         IF content.len > ConnectiveLength
         THEN [content EXCEPT !.form = "overview", !.len = @ + 10] ELSE content
    ELSE content

\* intensity_multipliers.get(intensity, 1.0), in tenths
intensity_multiplier(intensity) ==
    CASE intensity = "high" -> 13
      [] intensity = "medium" -> 10
      [] intensity = "low" -> 7
      [] OTHER -> 10

MinPriority == 1
MaxPriority == 10
MinSizeWeight == SWScale \div 10          \* 0.1
MaxSizeWeight == 3 * SWScale              \* 3.0

\* the body of _adapt_single_block once a rule r has been found
apply_rule(block, r, preference_type, confidence, intensity) ==
    LET rule == adaptation_rules[r]
        im == intensity_multiplier(intensity)
        \* confidence_multiplier = 0.5 + confidence * 0.5 = (10 + tenths) / 20
        p1 == IntTrunc((block.priority + rule.priority_boost) * (10 + confidence), 20)
        p2 == IntTrunc(p1 * im, 10)
        \* size_weight * size_multiplier * confidence_multiplier * intensity_mult, exactly:
        \* a parsed weight is a whole number of thousandths, and
        \* (1/1000) * (1/10) * (1/20) * (1/10) = 1/SWScale
        sw == (block.size_weight \div (SWScale \div 1000))
                  * rule.size_multiplier * (10 + confidence) * im
    IN  [content_type |-> block.content_type,
         content |-> adapt_block_content(block.content, preference_type, rule),
         priority |-> Max(MinPriority, Min(MaxPriority, p2)),
         size_weight |-> Max(MinSizeWeight, Min(MaxSizeWeight, sw)),
         section_index |-> block.section_index,
         adapted |-> TRUE,
         original_priority |-> block.priority,
         original_size_weight |-> block.size_weight,
         adaptation_rule |-> r,
         confidence_applied |-> confidence,
         intensity_applied |-> intensity]

\* _adapt_single_block
adapt_single_block(block, preference_type, confidence, intensity) ==
    LET r == find_matching_rule(block.content_type, preference_type)
    IN  IF r = 0 THEN block
        ELSE apply_rule(block, r, preference_type, confidence, intensity)

\* user_preferences.get("preference", "mixed")
GetPreference(user_preferences) ==
    IF user_preferences.preference = Absent THEN "mixed" ELSE user_preferences.preference

DefaultConfidence == 5

\* user_preferences.get("confidence", 0.5), in tenths
GetConfidence(user_preferences) ==
    IF user_preferences.confidence = NoConf THEN DefaultConfidence ELSE user_preferences.confidence

\* user_preferences.get("intensity", "medium")
GetIntensity(user_preferences) ==
    IF user_preferences.intensity = Absent THEN "medium" ELSE user_preferences.intensity

\* _apply_preference_adaptations
apply_preference_adaptations(content_blocks, user_preferences) ==
    [i \in DOMAIN content_blocks |->
        adapt_single_block(content_blocks[i], GetPreference(user_preferences),
                           GetConfidence(user_preferences), GetIntensity(user_preferences))]

\* _analyze_text_type, on the keyword the section contains
analyze_text_type(text) ==
    IF text.word \in {"summary", "conclusion", "overview", "tldr"} THEN "summary"
    ELSE IF text.word \in {"detailed", "comprehensive", "step-by-step", "analysis"}
    THEN "detailed_explanation"
    ELSE IF text.word \in {"statistics", "data shows"} THEN "text_analysis"
    ELSE "mixed_content"

FirstSectionPriority == 8
SummaryPriority == 8
ChartPriority == 7
DataPriority == 4
WholePriority == 5

\* the priority _parse_text_content gives section i (counted from 0)
section_priority(i, text) ==
    LET base == Max(1, FirstSectionPriority - i)
        bonus == IF text.word \in {"summary", "conclusion"} THEN 2
                 ELSE IF text.word \in {"introduction", "overview"} THEN 1 ELSE 0
    IN  Min(10, base + bonus)

\* _parse_text_content from section k of the list on; a section whose strip()
\* is empty (len 0 here) is skipped but keeps its index
RECURSIVE ParseSections(_, _)
ParseSections(sections, k) ==
    IF k > Len(sections) THEN <<>>
    ELSE LET sec == sections[k]
             rest == ParseSections(sections, k + 1)
         IN  IF sec.len = 0 THEN rest
             ELSE <<ContentBlock(analyze_text_type(sec), sec, section_priority(k - 1, sec),
                                 Thousandths(sec.len), k - 1)>> \o rest

parse_text_content(sections) == ParseSections(sections, 1)

\* _parse_chart_content: one block per entry of the chart dict
parse_chart_content(charts) ==
    [i \in 1..Len(charts) |->
        ContentBlock("chart_data", charts[i], ChartPriority, Thousandths(1500), NoIndex)]

\* _parse_data_content (the data is a list or a dict)
parse_data_content(data) ==
    <<ContentBlock("raw_data", data, DataPriority, Thousandths(1000), NoIndex)>>

\* _parse_summary_content
parse_summary_content(summary) ==
    <<ContentBlock("summary", summary, SummaryPriority, Thousandths(800), NoIndex)>>

\* _parse_response_content
parse_response_content(resp) ==
    LET found == (IF "text_response" \in resp.has THEN parse_text_content(resp.text_response) ELSE <<>>)
                 \o (IF "chart_data" \in resp.has THEN parse_chart_content(resp.chart_data) ELSE <<>>)
                 \o (IF "data" \in resp.has THEN parse_data_content(resp.data) ELSE <<>>)
                 \o (IF "summary" \in resp.has THEN parse_summary_content(resp.summary) ELSE <<>>)
    IN  IF found # <<>> THEN found
        ELSE <<ContentBlock("mixed_content", Text(2, 1, "json"), WholePriority,
                            Thousandths(1000), NoIndex)>>

\* x.metadata.get("section_index", 0)
SectionIndex(b) == IF b.section_index = NoIndex THEN 0 ELSE b.section_index

\* the sort key of _reorder_content
sort_key(b, preference_type) ==
    IF preference_type = "visual"
    THEN << 0 - b.priority,
            IF b.content_type = "chart_data" THEN 0 ELSE 1,
            IF b.content_type = "summary" THEN 0 ELSE 1,
            SectionIndex(b) >>
    ELSE IF preference_type = "text"
    THEN << 0 - b.priority,
            IF b.content_type = "summary" THEN 0 ELSE 1,
            IF b.content_type = "detailed_explanation" THEN 0 ELSE 1,
            IF b.content_type = "chart_data" THEN 1 ELSE 0 >>
    ELSE << 0 - b.priority, SectionIndex(b), 0, 0 >>

\* tuple comparison k1 < k2 of Python, from position i on
RECURSIVE KeyLessFrom(_, _, _)
KeyLessFrom(k1, k2, i) ==
    IF i > Len(k1) THEN FALSE
    ELSE IF k1[i] # k2[i] THEN k1[i] < k2[i]
    ELSE KeyLessFrom(k1, k2, i + 1)

KeyLess(k1, k2) == KeyLessFrom(k1, k2, 1)

\* list.sort(key=...): stable, an element goes behind those whose key is not greater
RECURSIVE InsertSorted(_, _, _)
InsertSorted(sorted, b, preference_type) ==
    IF sorted = <<>> THEN <<b>>
    ELSE IF KeyLess(sort_key(b, preference_type), sort_key(Head(sorted), preference_type))
    THEN <<b>> \o sorted
    ELSE <<Head(sorted)>> \o InsertSorted(Tail(sorted), b, preference_type)

RECURSIVE SortFrom(_, _, _, _)
SortFrom(content_blocks, k, sorted, preference_type) ==
    IF k > Len(content_blocks) THEN sorted
    ELSE SortFrom(content_blocks, k + 1,
                  InsertSorted(sorted, content_blocks[k], preference_type), preference_type)

\* a reordering by priority alone, without the class-specific tie-breaks
reorder_content_by_priority(content_blocks, user_preferences) ==
    SortFrom(content_blocks, 1, <<>>, "none")

\* _reorder_content
reorder_content(content_blocks, user_preferences) ==
    SortFrom(content_blocks, 1, <<>>, GetPreference(user_preferences))

\* what adapt_response hands back: the adapted answer, the original answer
\* marked fallback_used, or an exception
Adapted(content_blocks, adapted_blocks, reordered_blocks) ==
    [outcome |-> "adapted", blocks |-> content_blocks, adapted |-> adapted_blocks,
     output |-> reordered_blocks]

FallbackUsed == [outcome |-> "fallback", blocks |-> <<>>, adapted |-> <<>>, output |-> <<>>]

AdaptRaised == [outcome |-> "raised", blocks |-> <<>>, adapted |-> <<>>, output |-> <<>>]

\* adapt_response
adapt_response(original_response, user_preferences) ==
    IF original_response.t # "dict"
    THEN \* the steps fail on a non-dict answer ("in", .items()) and so does the
         \* handler's {**original_response}: the TypeError leaves the function
         AdaptRaised
    ELSE IF user_preferences.t # "dict"
    THEN FallbackUsed              \* user_preferences.get: AttributeError
    ELSE IF /\ user_preferences.confKind = "str"
            /\ \E i \in DOMAIN adaptation_rules :
                   adaptation_rules[i].preference_type = GetPreference(user_preferences)
    THEN FallbackUsed              \* confidence * 0.5: TypeError once a rule is found
    ELSE IF user_preferences.preference = Absent
    THEN FallbackUsed              \* user_preferences["preference"]: KeyError
    ELSE LET content_blocks == parse_response_content(original_response)
             adapted_blocks == apply_preference_adaptations(content_blocks, user_preferences)
         IN  Adapted(content_blocks, adapted_blocks,
                     reorder_content(adapted_blocks, user_preferences))

-----------------------------------------------------------------------------
(* AdaptSpec: one adapt_response call of the engine, for every sample       *)
(* response and every sample signal.                                        *)

MaxSections == 2

BlankSection == Text(0, 0, "")

SectionSamples ==
    { Text(11, 1, ""),                     \* one short sentence
      Text(40, 1, "introduction"),
      Text(250, 5, "statistics"),
      Text(600, 4, "detailed"),
      Text(3500, 9, "summary") }

ChartSample == Text(20, 1, "json")
DataSample == Text(30, 1, "json")
SummarySample == Text(120, 2, "")

\* n empty sections, as left by consecutive delimiters at the start of the text
Blanks(n) == [i \in 1..n |-> BlankSection]

LeadingBlanks == {0, 7}

TextSamples ==
    { Blanks(n) \o secs : n \in LeadingBlanks,
                          secs \in UNION {[1..m -> SectionSamples] : m \in 0..MaxSections} }

Response(has, text, charts) ==
    [t |-> "dict", has |-> has, text_response |-> text, chart_data |-> charts,
     data |-> DataSample, summary |-> SummarySample]

ResponseSamples ==
    { Response(has \cup {"text_response"}, text, <<ChartSample>>) :
          has \in SUBSET {"chart_data", "data", "summary"}, text \in TextSamples }
    \cup { Response(has, <<>>, <<ChartSample>>) : has \in SUBSET {"chart_data", "data", "summary"} }

ConfidenceSamples == {0, 5, 8, 10}         \* tenths

Signal(p, c, i) ==
    [t |-> "dict", preference |-> p, confKind |-> "num", confidence |-> c, intensity |-> i]

SignalSamples ==
    { Signal(p, c, i) : p \in ValidPreferences, c \in ConfidenceSamples, i \in ValidIntensities }

\* answers that are no dict: None, a string, a list
NonDictResponses == { [Response({}, <<>>, <<>>) EXCEPT !.t = k] : k \in {"none", "str", "list"} }

\* signals that are no dict, or a dict with a key missing or a confidence
\* that is no number
MalformedSignals ==
    { [Signal(Absent, NoConf, Absent) EXCEPT !.t = "none"],
      [Signal(Absent, NoConf, Absent) EXCEPT !.t = "str"],
      Signal(Absent, NoConf, Absent),                              \* {}
      Signal(Absent, 5, "medium"),                                 \* no "preference"
      Signal("visual", NoConf, Absent),                            \* only "preference"
      [Signal("visual", NoConf, "high") EXCEPT !.confKind = "str"],
      [Signal("unclear", NoConf, "low") EXCEPT !.confKind = "str"] }

AdaptInit ==
    /\ recovery_statistics = InitStatistics
    /\ fallback_cache = {}
    /\ now = 0
    /\ faults = {}
    /\ call = NoCall
    /\ result = NoResult
    /\ pc = "respond"
    /\ ncalls = 0
    /\ tstate = IdleThreads
    /\ \/ response \in ResponseSamples /\ signal \in SignalSamples
       \/ response \in ResponseSamples /\ signal \in MalformedSignals
       \/ response \in NonDictResponses /\ signal \in SignalSamples \cup MalformedSignals
    /\ blocks = IdleAdaptation
    /\ adapted = IdleAdaptation
    /\ output = IdleAdaptation
    /\ outcome = "idle"
    /\ ParserIdle
    /\ FormatterIdle

\* adapt_response: parse, adapt every block, reorder
AdaptResponse ==
    /\ pc = "respond"
    /\ LET r == adapt_response(response, signal)
       IN  /\ blocks' = r.blocks
           /\ adapted' = r.adapted
           /\ output' = r.output
           /\ outcome' = r.outcome
    /\ pc' = "responded"
    /\ UNCHANGED <<recovery_statistics, fallback_cache, now, faults, call, result, ncalls,
                   tstate, response, signal, user_input, parsed, parsing_history,
                   formatted_response, preference_result>>

AdaptNext == AdaptResponse

AdaptSpec == AdaptInit /\ [][AdaptNext]_vars

-----------------------------------------------------------------------------
(* Claims about the adaptation engine.                                      *)

Responded == pc = "responded" /\ outcome = "adapted"

\* the rules declared with exactly this (preference class, content type) key
RulesWithKey(preference_type, content_type) ==
    {i \in DOMAIN adaptation_rules :
        /\ adaptation_rules[i].preference_type = preference_type
        /\ adaptation_rules[i].content_type = content_type}

\* the rules declared for a preference class
RulesOfClass(preference_type) ==
    {i \in DOMAIN adaptation_rules : adaptation_rules[i].preference_type = preference_type}

NoExactRule(i) == RulesWithKey(signal.preference, blocks[i].content_type) = {}

UniqueRuleKeys ==
    \A p \in ValidPreferences, ct \in ResponseTypes : Cardinality(RulesWithKey(p, ct)) <= 1

\* how often block b occurs in a list
Occurrences(list, b) == Cardinality({k \in DOMAIN list : list[k] = b})

\* the output holds exactly the adapted blocks, each as often, in some order
OutputKeepsBlocks ==
    /\ Len(output) = Len(blocks)
    /\ Len(adapted) = Len(blocks)
    /\ \A i \in DOMAIN adapted : Occurrences(output, adapted[i]) = Occurrences(adapted, adapted[i])

C9_VisibilityThresholdGate ==
    Responded =>
        \A i \in DOMAIN blocks :
            LET r == find_matching_rule(blocks[i].content_type, signal.preference)
            IN  (r # 0 /\ GetConfidence(signal) < adaptation_rules[r].visibility_threshold) =>
                    /\ adapted[i].priority = blocks[i].priority
                    /\ adapted[i].size_weight = blocks[i].size_weight

\* C10: every block in the output of adapt_response has a priority in 1..10
\* and a size_weight in [0.1, 3.0], blocks passing through without a rule
\* included.
C10_OutputBlockRanges ==
    Responded =>
        \A k \in DOMAIN output :
            /\ output[k].priority \in MinPriority..MaxPriority
            /\ output[k].size_weight >= MinSizeWeight
            /\ output[k].size_weight <= MaxSizeWeight

\* position of a content type among blocks of equal priority, per class
TieRank(preference_type, content_type) ==
    IF preference_type = "visual"
    THEN CASE content_type = "chart_data" -> 1
           [] content_type = "summary" -> 2
           [] OTHER -> 3
    ELSE IF preference_type = "text"
    THEN CASE content_type = "summary" -> 1
           [] content_type = "detailed_explanation" -> 2
           [] content_type = "chart_data" -> 4
           [] OTHER -> 3
    ELSE 0

\* C11: the output is sorted by descending adapted priority; among blocks of
\* equal priority, for class visual charts precede summaries which precede the
\* other types, and for class text summaries precede detailed explanations
\* which precede the other non-chart types, charts last.
C11_PriorityThenClassOrder ==
    Responded =>
        \A a, b \in DOMAIN output :
            a < b =>
                /\ output[a].priority >= output[b].priority
                /\ output[a].priority = output[b].priority =>
                      TieRank(signal.preference, output[a].content_type)
                          <= TieRank(signal.preference, output[b].content_type)

\* a visual answer in which a summary precedes a chart of equal adapted
\* priority in the input, and the chart comes out first
C11_Witness ==
    /\ Responded
    /\ signal.preference = "visual"
    /\ \E i, j \in DOMAIN adapted :
          /\ i < j
          /\ adapted[i].content_type = "summary"
          /\ adapted[j].content_type = "chart_data"
          /\ adapted[i].priority = adapted[j].priority
    /\ output[1].content_type = "chart_data"
    /\ Len(output) >= 3

\* the place of an adapted block in the output
OutputPosition(b) == CHOOSE k \in DOMAIN output : output[k] = b

\* C12: for class mixed, two blocks of equal adapted priority appear in the
\* output in the relative order they had in the input block list.
C12_MixedKeepsSourceOrder ==
    (Responded /\ signal.preference = "mixed") =>
        \A i, j \in DOMAIN adapted :
            (i < j /\ adapted[i].priority = adapted[j].priority) =>
                OutputPosition(adapted[i]) < OutputPosition(adapted[j])

-----------------------------------------------------------------------------
(* ChartScenarioSpec: adapt_response for an answer of three text sections   *)
(* and one chart, under a visual signal of high confidence.                 *)

ScenarioSections == 3

HighConfidenceSamples == {8, 9, 10}         \* tenths

ChartScenarioInit ==
    /\ recovery_statistics = InitStatistics
    /\ fallback_cache = {}
    /\ now = 0
    /\ faults = {}
    /\ call = NoCall
    /\ result = NoResult
    /\ pc = "respond"
    /\ ncalls = 0
    /\ tstate = IdleThreads
    /\ response \in { Response({"text_response", "chart_data"}, text, <<ChartSample>>) :
                          text \in [1..ScenarioSections -> SectionSamples] }
    /\ signal \in { Signal("visual", c, i) : c \in HighConfidenceSamples, i \in ValidIntensities }
    /\ blocks = IdleAdaptation
    /\ adapted = IdleAdaptation
    /\ output = IdleAdaptation
    /\ outcome = "idle"
    /\ ParserIdle
    /\ FormatterIdle

ChartScenarioNext == AdaptResponse

ChartScenarioSpec == ChartScenarioInit /\ [][ChartScenarioNext]_vars

\* C13: with one chart and three text blocks under a visual signal of
\* confidence >= 0.8, the chart block is first in the output and its adapted
\* size_weight is greater than its input size_weight, for every intensity and
\* every content type of the text blocks.
C13_ChartFirstAndLarger ==
    Responded =>
        /\ output[1].content_type = "chart_data"
        /\ \A i \in DOMAIN blocks :
              blocks[i].content_type = "chart_data" =>
                  adapted[i].size_weight > blocks[i].size_weight

\* C14: adapt_response never raises, whatever the answer and the signal are;
\* when a step fails it returns the original answer marked fallback_used.
C14_AdaptResponseNeverFails ==
    pc = "responded" => outcome \in {"adapted", "fallback"}

-----------------------------------------------------------------------------
(* AdvancedPreferenceParser.  A text is a sequence of one-character         *)
(* strings; scores are integers in hundredths, confidences in hundredths.   *)

\* PREFERENCE_KEYWORDS["visual"]["primary"]
VisualPrimary ==
    << <<"c", "h", "a", "r", "t">>,
       <<"c", "h", "a", "r", "t", "s">>,
       <<"g", "r", "a", "p", "h">>,
       <<"g", "r", "a", "p", "h", "s">>,
       <<"v", "i", "s", "u", "a", "l">>,
       <<"v", "i", "s", "u", "a", "l", "s">>,
       <<"d", "i", "a", "g", "r", "a", "m">>,
       <<"d", "i", "a", "g", "r", "a", "m", "s">>,
       <<"p", "l", "o", "t">>,
       <<"p", "l", "o", "t", "s">>,
       <<"v", "i", "s", "u", "a", "l", "i", "z", "a", "t", "i", "o", "n">>,
       <<"v", "i", "s", "u", "a", "l", "i", "z", "a", "t", "i", "o", "n", "s">>,
       <<"i", "n", "f", "o", "g", "r", "a", "p", "h", "i", "c">>,
       <<"i", "n", "f", "o", "g", "r", "a", "p", "h", "i", "c", "s">> >>

\* PREFERENCE_KEYWORDS["visual"]["secondary"]
VisualSecondary ==
    << <<"s", "h", "o", "w">>,
       <<"d", "i", "s", "p", "l", "a", "y">>,
       <<"s", "e", "e">>,
       <<"l", "o", "o", "k">>,
       <<"w", "a", "t", "c", "h">>,
       <<"v", "i", "e", "w">>,
       <<"p", "i", "c", "t", "u", "r", "e">>,
       <<"i", "m", "a", "g", "e">>,
       <<"g", "r", "a", "p", "h", "i", "c">>,
       <<"g", "r", "a", "p", "h", "i", "c", "s">>,
       <<"d", "a", "s", "h", "b", "o", "a", "r", "d">>,
       <<"p", "i", "e", " ", "c", "h", "a", "r", "t">>,
       <<"b", "a", "r", " ", "c", "h", "a", "r", "t">>,
       <<"l", "i", "n", "e", " ", "g", "r", "a", "p", "h">>,
       <<"s", "c", "a", "t", "t", "e", "r", " ", "p", "l", "o", "t">> >>

\* PREFERENCE_KEYWORDS["visual"]["context_phrases"]
VisualContextPhrases ==
    << <<"p", "r", "e", "f", "e", "r", " ", "c", "h", "a", "r", "t", "s">>,
       <<"l", "i", "k", "e", " ", "g", "r", "a", "p", "h", "s">>,
       <<"v", "i", "s", "u", "a", "l", " ", "d", "a", "t", "a">>,
       <<"s", "h", "o", "w", " ", "m", "e", " ", "c", "h", "a", "r", "t", "s">>,
       <<"d", "a", "t", "a", " ", "v", "i", "s", "u", "a", "l", "i", "z", "a", "t", "i", "o", "n">>,
       <<"g", "r", "a", "p", "h", "i", "c", "a", "l", " ", "r", "e", "p", "r", "e", "s", "e", "n", "t", "a", "t", "i", "o", "n">>,
       <<"v", "i", "s", "u", "a", "l", " ", "f", "o", "r", "m", "a", "t">>,
       <<"c", "h", "a", "r", "t", " ", "f", "o", "r", "m", "a", "t">>,
       <<"g", "r", "a", "p", "h", " ", "f", "o", "r", "m">>,
       <<"v", "i", "s", "u", "a", "l", " ", "d", "i", "s", "p", "l", "a", "y">>,
       <<"p", "i", "c", "t", "o", "r", "i", "a", "l">>,
       <<"v", "i", "s", "u", "a", "l", " ", "l", "e", "a", "r", "n", "e", "r">>,
       <<"s", "e", "e", " ", "d", "a", "t", "a">>,
       <<"v", "i", "s", "u", "a", "l", " ", "r", "e", "p", "r", "e", "s", "e", "n", "t", "a", "t", "i", "o", "n">> >>

\* PREFERENCE_KEYWORDS["visual"]["preference_indicators"]
VisualPreferenceIndicators ==
    << <<"p", "r", "e", "f", "e", "r">>,
       <<"l", "i", "k", "e">>,
       <<"w", "a", "n", "t">>,
       <<"n", "e", "e", "d">>,
       <<"l", "o", "v", "e">>,
       <<"e", "n", "j", "o", "y">>,
       <<"f", "a", "v", "o", "r">>,
       <<"b", "e", "t", "t", "e", "r", " ", "w", "i", "t", "h">>,
       <<"e", "a", "s", "i", "e", "r", " ", "w", "i", "t", "h">>,
       <<"c", "l", "e", "a", "r", "e", "r", " ", "w", "i", "t", "h">>,
       <<"u", "n", "d", "e", "r", "s", "t", "a", "n", "d", " ", "b", "e", "t", "t", "e", "r">> >>

\* PREFERENCE_KEYWORDS["text"]["primary"]
TextPrimary ==
    << <<"t", "e", "x", "t">>,
       <<"e", "x", "p", "l", "a", "n", "a", "t", "i", "o", "n">>,
       <<"e", "x", "p", "l", "a", "n", "a", "t", "i", "o", "n", "s">>,
       <<"d", "e", "t", "a", "i", "l">>,
       <<"d", "e", "t", "a", "i", "l", "s">>,
       <<"d", "e", "s", "c", "r", "i", "p", "t", "i", "o", "n">>,
       <<"d", "e", "s", "c", "r", "i", "p", "t", "i", "o", "n", "s">>,
       <<"a", "n", "a", "l", "y", "s", "i", "s">>,
       <<"b", "r", "e", "a", "k", "d", "o", "w", "n">>,
       <<"s", "u", "m", "m", "a", "r", "y">>,
       <<"s", "u", "m", "m", "a", "r", "i", "e", "s">>,
       <<"n", "a", "r", "r", "a", "t", "i", "v", "e">>,
       <<"w", "r", "i", "t", "t", "e", "n">> >>

\* PREFERENCE_KEYWORDS["text"]["secondary"]
TextSecondary ==
    << <<"e", "x", "p", "l", "a", "i", "n">>,
       <<"d", "e", "s", "c", "r", "i", "b", "e">>,
       <<"e", "l", "a", "b", "o", "r", "a", "t", "e">>,
       <<"d", "i", "s", "c", "u", "s", "s">>,
       <<"a", "n", "a", "l", "y", "z", "e">>,
       <<"t", "e", "l", "l">>,
       <<"w", "r", "i", "t", "e">>,
       <<"r", "e", "a", "d">>,
       <<"u", "n", "d", "e", "r", "s", "t", "a", "n", "d">>,
       <<"c", "o", "m", "p", "r", "e", "h", "e", "n", "s", "i", "v", "e">>,
       <<"t", "h", "o", "r", "o", "u", "g", "h">>,
       <<"d", "e", "t", "a", "i", "l", "e", "d">>,
       <<"i", "n", "-", "d", "e", "p", "t", "h">>,
       <<"s", "t", "e", "p", "-", "b", "y", "-", "s", "t", "e", "p">> >>

\* PREFERENCE_KEYWORDS["text"]["context_phrases"]
TextContextPhrases ==
    << <<"d", "e", "t", "a", "i", "l", "e", "d", " ", "e", "x", "p", "l", "a", "n", "a", "t", "i", "o", "n", "s">>,
       <<"t", "e", "x", "t", " ", "f", "o", "r", "m", "a", "t">>,
       <<"w", "r", "i", "t", "t", "e", "n", " ", "a", "n", "a", "l", "y", "s", "i", "s">>,
       <<"c", "o", "m", "p", "r", "e", "h", "e", "n", "s", "i", "v", "e", " ", "b", "r", "e", "a", "k", "d", "o", "w", "n">>,
       <<"t", "h", "o", "r", "o", "u", "g", "h", " ", "e", "x", "p", "l", "a", "n", "a", "t", "i", "o", "n">>,
       <<"i", "n", " ", "d", "e", "t", "a", "i", "l">>,
       <<"s", "t", "e", "p", " ", "b", "y", " ", "s", "t", "e", "p">>,
       <<"t", "e", "x", "t", "-", "b", "a", "s", "e", "d">>,
       <<"d", "e", "s", "c", "r", "i", "p", "t", "i", "v", "e", " ", "a", "n", "a", "l", "y", "s", "i", "s">>,
       <<"n", "a", "r", "r", "a", "t", "i", "v", "e", " ", "f", "o", "r", "m", "a", "t">>,
       <<"w", "r", "i", "t", "t", "e", "n", " ", "s", "u", "m", "m", "a", "r", "y">>,
       <<"t", "e", "x", "t", "u", "a", "l", " ", "i", "n", "f", "o", "r", "m", "a", "t", "i", "o", "n">> >>

\* PREFERENCE_KEYWORDS["text"]["preference_indicators"]
TextPreferenceIndicators ==
    << <<"p", "r", "e", "f", "e", "r">>,
       <<"l", "i", "k", "e">>,
       <<"w", "a", "n", "t">>,
       <<"n", "e", "e", "d">>,
       <<"l", "o", "v", "e">>,
       <<"e", "n", "j", "o", "y">>,
       <<"f", "a", "v", "o", "r">>,
       <<"b", "e", "t", "t", "e", "r", " ", "w", "i", "t", "h">>,
       <<"e", "a", "s", "i", "e", "r", " ", "w", "i", "t", "h">>,
       <<"c", "l", "e", "a", "r", "e", "r", " ", "w", "i", "t", "h">>,
       <<"u", "n", "d", "e", "r", "s", "t", "a", "n", "d", " ", "b", "e", "t", "t", "e", "r">> >>

\* NEGATION_WORDS
NEGATION_WORDS ==
    << <<"n", "o", "t">>,
       <<"d", "o", "n", "'", "t">>,
       <<"d", "o", "e", "s", "n", "'", "t">>,
       <<"w", "o", "n", "'", "t">>,
       <<"c", "a", "n", "'", "t">>,
       <<"s", "h", "o", "u", "l", "d", "n", "'", "t">>,
       <<"w", "o", "u", "l", "d", "n", "'", "t">>,
       <<"n", "o">>,
       <<"n", "e", "v", "e", "r">>,
       <<"n", "o", "n", "e">>,
       <<"n", "e", "i", "t", "h", "e", "r">>,
       <<"n", "o", "r">>,
       <<"w", "i", "t", "h", "o", "u", "t">>,
       <<"a", "v", "o", "i", "d">>,
       <<"d", "i", "s", "l", "i", "k", "e">>,
       <<"h", "a", "t", "e">>,
       <<"a", "g", "a", "i", "n", "s", "t">>,
       <<"o", "p", "p", "o", "s", "i", "t", "e">>,
       <<"i", "n", "s", "t", "e", "a", "d", " ", "o", "f">>,
       <<"r", "a", "t", "h", "e", "r", " ", "t", "h", "a", "n">> >>

\* INTENSITY_MODIFIERS["high"]
HighModifiers ==
    << <<"a", "l", "w", "a", "y", "s">>,
       <<"d", "e", "f", "i", "n", "i", "t", "e", "l", "y">>,
       <<"a", "b", "s", "o", "l", "u", "t", "e", "l", "y">>,
       <<"c", "e", "r", "t", "a", "i", "n", "l", "y">>,
       <<"s", "t", "r", "o", "n", "g", "l", "y">>,
       <<"r", "e", "a", "l", "l", "y">>,
       <<"v", "e", "r", "y">>,
       <<"e", "x", "t", "r", "e", "m", "e", "l", "y">> >>

\* INTENSITY_MODIFIERS["medium"]
MediumModifiers ==
    << <<"u", "s", "u", "a", "l", "l", "y">>,
       <<"o", "f", "t", "e", "n">>,
       <<"g", "e", "n", "e", "r", "a", "l", "l", "y">>,
       <<"t", "y", "p", "i", "c", "a", "l", "l", "y">>,
       <<"m", "o", "s", "t", "l", "y">>,
       <<"p", "r", "e", "f", "e", "r">>,
       <<"l", "i", "k", "e">> >>

\* INTENSITY_MODIFIERS["low"]
LowModifiers ==
    << <<"s", "o", "m", "e", "t", "i", "m", "e", "s">>,
       <<"o", "c", "c", "a", "s", "i", "o", "n", "a", "l", "l", "y">>,
       <<"m", "a", "y", "b", "e">>,
       <<"p", "e", "r", "h", "a", "p", "s">>,
       <<"m", "i", "g", "h", "t">>,
       <<"c", "o", "u", "l", "d">>,
       <<"s", "o", "m", "e", "w", "h", "a", "t">> >>

\* the abbreviations of _clean_input, in the order they are replaced
abbreviations ==
    << <<<<"v", "i", "z">>, <<"v", "i", "s", "u", "a", "l", "i", "z", "a", "t", "i", "o", "n">>>>,
       <<<<"v", "i", "s">>, <<"v", "i", "s", "u", "a", "l">>>>,
       <<<<"i", "m", "g", "s">>, <<"i", "m", "a", "g", "e", "s">>>>,
       <<<<"p", "i", "c", "s">>, <<"p", "i", "c", "t", "u", "r", "e", "s">>>>,
       <<<<"i", "n", "f", "o">>, <<"i", "n", "f", "o", "r", "m", "a", "t", "i", "o", "n">>>>,
       <<<<"d", "e", "s", "c">>, <<"d", "e", "s", "c", "r", "i", "p", "t", "i", "o", "n">>>>,
       <<<<"e", "x", "p", "l">>, <<"e", "x", "p", "l", "a", "n", "a", "t", "i", "o", "n">>>> >>

WhitespaceChars == {" ", "\t", "\n"}

UpperCase == <<"A", "B", "C", "D", "E", "F", "G", "H", "I", "J", "K", "L", "M",
               "N", "O", "P", "Q", "R", "S", "T", "U", "V", "W", "X", "Y", "Z">>
LowerCase == <<"a", "b", "c", "d", "e", "f", "g", "h", "i", "j", "k", "l", "m",
               "n", "o", "p", "q", "r", "s", "t", "u", "v", "w", "x", "y", "z">>

\* str.lower() of one character
LowerChar(ch) ==
    IF \E k \in DOMAIN UpperCase : UpperCase[k] = ch
    THEN LowerCase[CHOOSE k \in DOMAIN UpperCase : UpperCase[k] = ch]
    ELSE ch

\* str.lower()
Lower(text) == [k \in DOMAIN text |-> LowerChar(text[k])]

\* sub occurs in text at position k
OccursAt(sub, text, k) ==
    /\ k >= 1
    /\ k + Len(sub) - 1 <= Len(text)
    /\ \A j \in 1..Len(sub) : text[k + j - 1] = sub[j]

\* the positions at which sub occurs in text
Occurrences_of(sub, text) == {k \in 1..Len(text) : OccursAt(sub, text, k)}

\* "sub in text"
Occurs(sub, text) == \E k \in 1..Len(text) : OccursAt(sub, text, k)

\* str.strip(): without leading and trailing whitespace
Strip(text) ==
    LET solid == {k \in DOMAIN text : text[k] \notin WhitespaceChars}
    IN  IF solid = {} THEN <<>>
        ELSE SubSeq(text, CHOOSE k \in solid : \A j \in solid : k <= j,
                          CHOOSE k \in solid : \A j \in solid : k >= j)

\* re.sub(r'\s+', ' ', text) from position k on
RECURSIVE CollapseFrom(_, _)
CollapseFrom(text, k) ==
    IF k > Len(text) THEN <<>>
    ELSE IF text[k] \in WhitespaceChars
    THEN IF k > 1 /\ text[k - 1] \in WhitespaceChars
         THEN CollapseFrom(text, k + 1)
         ELSE <<" ">> \o CollapseFrom(text, k + 1)
    ELSE <<text[k]>> \o CollapseFrom(text, k + 1)

\* str.replace(old, new) from position k on: leftmost, non-overlapping
RECURSIVE ReplaceFrom(_, _, _, _)
ReplaceFrom(text, old, new, k) ==
    IF k > Len(text) THEN <<>>
    ELSE IF OccursAt(old, text, k)
    THEN new \o ReplaceFrom(text, old, new, k + Len(old))
    ELSE <<text[k]>> \o ReplaceFrom(text, old, new, k + 1)

\* the abbreviations replaced one after the other, from entry k on
RECURSIVE ExpandFrom(_, _)
ExpandFrom(text, k) ==
    IF k > Len(abbreviations) THEN text
    ELSE IF ~Occurs(abbreviations[k][1], text) THEN ExpandFrom(text, k + 1)
    ELSE ExpandFrom(ReplaceFrom(text, abbreviations[k][1], abbreviations[k][2], 1), k + 1)

\* _clean_input
clean_input(text) == ExpandFrom(CollapseFrom(Strip(Lower(text)), 1), 1)

\* the entries of a keyword list that occur in the text, in list order
Found(keywords, text) == SelectSeq(keywords, LAMBDA kw : Occurs(kw, text))

PrimaryWeight == 3
SecondaryWeight == 2
PhraseWeight == 4

\* _analyze_keywords without its two loops over the primary keywords
analyze_keywords_secondary_only(text) ==
    LET visual == Found(VisualSecondary, text)
        textual == Found(TextSecondary, text)
    IN  [visual_score |-> SecondaryWeight * Len(visual),
         text_score |-> SecondaryWeight * Len(textual),
         found_keywords |-> [visual |-> visual, text |-> textual],
         total_keywords |-> Len(visual) + Len(textual)]

\* _analyze_keywords
analyze_keywords(text) ==
    LET visual == Found(VisualPrimary, text) \o Found(VisualSecondary, text)
        textual == Found(TextPrimary, text) \o Found(TextSecondary, text)
    IN  [visual_score |-> PrimaryWeight * Len(Found(VisualPrimary, text))
                            + SecondaryWeight * Len(Found(VisualSecondary, text)),
         text_score |-> PrimaryWeight * Len(Found(TextPrimary, text))
                            + SecondaryWeight * Len(Found(TextSecondary, text)),
         found_keywords |-> [visual |-> visual, text |-> textual],
         total_keywords |-> Len(visual) + Len(textual)]

\* _analyze_context_phrases
analyze_context_phrases(text) ==
    [visual_phrases |-> Found(VisualContextPhrases, text),
     text_phrases |-> Found(TextContextPhrases, text),
     visual_phrase_score |-> PhraseWeight * Len(Found(VisualContextPhrases, text)),
     text_phrase_score |-> PhraseWeight * Len(Found(TextContextPhrases, text))]

\* re.search(f"{a}.*{b}", text): an occurrence of a wholly before one of b
\* (the cleaned text has no line break)
Before(a, b, text) ==
    \E i \in Occurrences_of(a, text), j \in Occurrences_of(b, text) : i + Len(a) <= j

\* re.search(f"{indicator}.*{keyword}|{keyword}.*{indicator}", text)
IndicatorWith(indicator, keyword, text) ==
    Before(indicator, keyword, text) \/ Before(keyword, indicator, text)

\* the (indicator, keyword) pairs of one preference type found in the text
IndicatorPairs(indicators, keywords, text) ==
    LET present_indicators == {i \in DOMAIN indicators : Occurs(indicators[i], text)}
        present_keywords == {k \in DOMAIN keywords : Occurs(keywords[k], text)}
    IN  {<<i, k>> \in present_indicators \X present_keywords :
            IndicatorWith(indicators[i], keywords[k], text)}

\* _analyze_sentiment: negative_indicators stays empty
analyze_sentiment(text) ==
    LET positive == Cardinality(IndicatorPairs(VisualPreferenceIndicators, VisualPrimary, text))
                    + Cardinality(IndicatorPairs(TextPreferenceIndicators, TextPrimary, text))
    IN  [positive_indicators |-> positive, negative_indicators |-> 0,
         sentiment_strength |-> positive - 0]

HighIntensityScore == 6
MediumIntensityScore == 3

\* _analyze_intensity
analyze_intensity(text) ==
    LET score == 3 * Len(Found(HighModifiers, text))
                 + 2 * Len(Found(MediumModifiers, text))
                 + 1 * Len(Found(LowModifiers, text))
    IN  [intensity_score |-> score,
         intensity_level |-> IF score >= HighIntensityScore THEN "high"
                             ELSE IF score >= MediumIntensityScore THEN "medium"
                             ELSE "low",
         found_modifiers |-> Found(HighModifiers, text) \o Found(MediumModifiers, text)
                             \o Found(LowModifiers, text)]

\* _check_negations
check_negations(text) ==
    [negations_found |-> Found(NEGATION_WORDS, text),
     has_negations |-> Found(NEGATION_WORDS, text) # <<>>]

\* round(n / d * 100) for n >= 0, d > 0: to the nearest, halves to the even
RoundHundredths(n, d) ==
    LET q == (100 * n) \div d
        r == (100 * n) % d
    IN  IF 2 * r > d THEN q + 1
        ELSE IF 2 * r = d THEN q + (q % 2)
        ELSE q

Abs(n) == IF n < 0 THEN 0 - n ELSE n

\* intensity_multiplier of _combine_analyses, in hundredths
score_multiplier(level) ==
    CASE level = "high" -> 150
      [] level = "medium" -> 100
      [] level = "low" -> 70

MixedMargin == 200            \* abs(visual_score - text_score) < 2
MixedCeiling == 80            \* min(0.8, ...)
ScoreFloor == 1000            \* max(total_score, 10)

\* the scores of _combine_analyses with a negation that exchanges the scores
\* and leaves them as large as they were
final_scores_undamped(keyword_analysis, phrase_analysis, sentiment_analysis, intensity_analysis, negation_analysis) ==
    LET strength == sentiment_analysis.sentiment_strength
        mult == score_multiplier(intensity_analysis.intensity_level)
        visual == (keyword_analysis.visual_score + phrase_analysis.visual_phrase_score
                     + (IF strength > 0 THEN strength ELSE 0)) * mult
        textual == (keyword_analysis.text_score + phrase_analysis.text_phrase_score
                     + (IF strength < 0 THEN Abs(strength) ELSE 0)) * mult
    IN  IF negation_analysis.has_negations
        THEN [visual |-> textual, text |-> visual]
        ELSE [visual |-> visual, text |-> textual]

\* the scores of _combine_analyses with a negation that turns both scores
\* negative instead of exchanging them
final_scores_negating(keyword_analysis, phrase_analysis, sentiment_analysis, intensity_analysis, negation_analysis) ==
    LET strength == sentiment_analysis.sentiment_strength
        mult == score_multiplier(intensity_analysis.intensity_level)
        visual == (keyword_analysis.visual_score + phrase_analysis.visual_phrase_score
                     + (IF strength > 0 THEN strength ELSE 0)) * mult
        textual == (keyword_analysis.text_score + phrase_analysis.text_phrase_score
                     + (IF strength < 0 THEN Abs(strength) ELSE 0)) * mult
    IN  IF negation_analysis.has_negations
        THEN [visual |-> 0 - (visual * 8) \div 10, text |-> 0 - (textual * 8) \div 10]
        ELSE [visual |-> visual, text |-> textual]

\* the scores of _combine_analyses after the intensity multiplier and the
\* negation swap, in hundredths
final_scores(keyword_analysis, phrase_analysis, sentiment_analysis, intensity_analysis, negation_analysis) ==
    LET strength == sentiment_analysis.sentiment_strength
        mult == score_multiplier(intensity_analysis.intensity_level)
        visual == (keyword_analysis.visual_score + phrase_analysis.visual_phrase_score
                     + (IF strength > 0 THEN strength ELSE 0)) * mult
        textual == (keyword_analysis.text_score + phrase_analysis.text_phrase_score
                     + (IF strength < 0 THEN Abs(strength) ELSE 0)) * mult
    IN  IF negation_analysis.has_negations
        THEN [visual |-> (textual * 8) \div 10, text |-> (visual * 8) \div 10]
        ELSE [visual |-> visual, text |-> textual]

\* _combine_analyses with class mixed only for equal scores
combine_analyses_no_margin(text, keyword_analysis, phrase_analysis, sentiment_analysis, intensity_analysis, negation_analysis) ==
    LET sc == final_scores(keyword_analysis, phrase_analysis, sentiment_analysis,
                           intensity_analysis, negation_analysis)
        total == sc.visual + sc.text
        decision ==
            IF total = 0
            THEN [preference |-> "unclear", confidence |-> 0]
            ELSE IF sc.visual = sc.text
            THEN [preference |-> "mixed",
                  confidence |-> Min(MixedCeiling, RoundHundredths(total, 1000))]
            ELSE IF sc.visual > sc.text
            THEN [preference |-> "visual",
                  confidence |-> Min(100, RoundHundredths(sc.visual, Max(total, ScoreFloor)))]
            ELSE [preference |-> "text",
                  confidence |-> Min(100, RoundHundredths(sc.text, Max(total, ScoreFloor)))]
    IN  [preference |-> decision.preference,
         confidence |-> decision.confidence,
         keywords_found |-> keyword_analysis.found_keywords,
         intensity |-> intensity_analysis.intensity_level,
         fallback_preference |-> IF decision.preference = "unclear" THEN "mixed"
                                 ELSE decision.preference,
         visual_score |-> sc.visual,
         text_score |-> sc.text,
         total_keywords |-> keyword_analysis.total_keywords,
         has_negations |-> negation_analysis.has_negations,
         intensity_score |-> intensity_analysis.intensity_score,
         input_length |-> Len(text)]

\* _combine_analyses without its total_score == 0 branch
combine_analyses_no_unclear(text, keyword_analysis, phrase_analysis, sentiment_analysis, intensity_analysis, negation_analysis) ==
    LET sc == final_scores(keyword_analysis, phrase_analysis, sentiment_analysis,
                           intensity_analysis, negation_analysis)
        total == sc.visual + sc.text
        decision ==
            IF Abs(sc.visual - sc.text) < MixedMargin
            THEN [preference |-> "mixed",
                  confidence |-> Min(MixedCeiling, RoundHundredths(total, 1000))]
            ELSE IF sc.visual > sc.text
            THEN [preference |-> "visual",
                  confidence |-> Min(100, RoundHundredths(sc.visual, Max(total, ScoreFloor)))]
            ELSE [preference |-> "text",
                  confidence |-> Min(100, RoundHundredths(sc.text, Max(total, ScoreFloor)))]
    IN  [preference |-> decision.preference,
         confidence |-> decision.confidence,
         keywords_found |-> keyword_analysis.found_keywords,
         intensity |-> intensity_analysis.intensity_level,
         fallback_preference |-> decision.preference,
         visual_score |-> sc.visual,
         text_score |-> sc.text,
         total_keywords |-> keyword_analysis.total_keywords,
         has_negations |-> negation_analysis.has_negations,
         intensity_score |-> intensity_analysis.intensity_score,
         input_length |-> Len(text)]

\* _combine_analyses
combine_analyses(text, keyword_analysis, phrase_analysis, sentiment_analysis, intensity_analysis, negation_analysis) ==
    LET sc == final_scores(keyword_analysis, phrase_analysis, sentiment_analysis,
                           intensity_analysis, negation_analysis)
        total == sc.visual + sc.text
        decision ==
            IF total = 0
            THEN [preference |-> "unclear", confidence |-> 0]
            ELSE IF Abs(sc.visual - sc.text) < MixedMargin
            THEN [preference |-> "mixed",
                  confidence |-> Min(MixedCeiling, RoundHundredths(total, 1000))]
            ELSE IF sc.visual > sc.text
            THEN [preference |-> "visual",
                  confidence |-> Min(100, RoundHundredths(sc.visual, Max(total, ScoreFloor)))]
            ELSE [preference |-> "text",
                  confidence |-> Min(100, RoundHundredths(sc.text, Max(total, ScoreFloor)))]
    IN  [preference |-> decision.preference,
         confidence |-> decision.confidence,
         keywords_found |-> keyword_analysis.found_keywords,
         intensity |-> intensity_analysis.intensity_level,
         fallback_preference |-> IF decision.preference = "unclear" THEN "mixed"
                                 ELSE decision.preference,
         visual_score |-> sc.visual,
         text_score |-> sc.text,
         total_keywords |-> keyword_analysis.total_keywords,
         has_negations |-> negation_analysis.has_negations,
         intensity_score |-> intensity_analysis.intensity_score,
         input_length |-> Len(text)]

\* _create_empty_response
create_empty_response ==
    [preference |-> "unclear", confidence |-> 0,
     keywords_found |-> [visual |-> <<>>, text |-> <<>>],
     intensity |-> "low", fallback_preference |-> "mixed",
     visual_score |-> 0, text_score |-> 0, total_keywords |-> 0,
     has_negations |-> FALSE, intensity_score |-> 0, input_length |-> 0]

\* the cleaned input and the five analyses of it, each computed once
analyses(text) ==
    {<<cleaned_input, analyze_keywords(cleaned_input), analyze_context_phrases(cleaned_input),
       analyze_sentiment(cleaned_input), analyze_intensity(cleaned_input),
       check_negations(cleaned_input)>> : cleaned_input \in {clean_input(text)}}

\* the analysis of a non-empty input
analyse(text) ==
    CHOOSE final_result \in {combine_analyses(a[1], a[2], a[3], a[4], a[5], a[6]) :
                                a \in analyses(text)} : TRUE

\* parse_user_preference without the history it keeps
parse_user_preference_stateless(text, history) ==
    IF text = <<>> \/ Strip(text) = <<>>
    THEN [result |-> create_empty_response, history |-> history]
    ELSE [result |-> analyse(text), history |-> history]

\* parse_user_preference: the result and the parser's parsing_history after it
parse_user_preference(text, history) ==
    IF text = <<>> \/ Strip(text) = <<>>
    THEN [result |-> create_empty_response, history |-> history]
    ELSE CHOOSE out \in {[result |-> final_result,
                          history |-> Append(history, [input |-> text, result |-> final_result])] :
                            final_result \in {analyse(text)}} : TRUE

(***************************************************************************)
(* Parsing: one input is parsed, then the same input with one more keyword.*)
(***************************************************************************)

MaxWords == 2

\* the words the sample inputs are made of
Vocabulary ==
    << <<"c", "h", "a", "r", "t">>,   \* chart
       <<"c", "h", "a", "r", "t", "s">>,   \* charts
       <<"g", "r", "a", "p", "h", "s">>,   \* graphs
       <<"t", "e", "x", "t">>,   \* text
       <<"s", "h", "o", "w">>,   \* show
       <<"e", "x", "p", "l", "a", "i", "n">>,   \* explain
       <<"p", "r", "e", "f", "e", "r">>,   \* prefer
       <<"n", "o", "t">>,   \* not
       <<"r", "e", "a", "l", "l", "y">>,   \* really
       <<"m", "e">> >>   \* me

\* the words of a sentence, separated by single spaces
RECURSIVE Join(_)
Join(words) ==
    IF words = <<>> THEN <<>>
    ELSE IF Len(words) = 1 THEN Vocabulary[words[1]]
    ELSE Vocabulary[words[1]] \o <<" ">> \o Join(Tail(words))

Sentences(n) == {Join(words) : words \in UNION {[1..k -> DOMAIN Vocabulary] : k \in 1..n}}

\* empty and whitespace-only inputs
BlankInputs == {<<>>, <<" ">>, <<"\t", "\n">>}

\* "show me charts and graphs"
ScenarioInput == <<"s", "h", "o", "w", " ", "m", "e", " ", "c", "h", "a", "r", "t", "s", " ", "a", "n", "d", " ", "g", "r", "a", "p", "h", "s">>

\* "  Show ME\t charts "
UntidyInput == <<" ", " ", "S", "h", "o", "w", " ", "M", "E", "\t", " ", "c", "h", "a", "r", "t", "s", " ">>

ParseInputs == Sentences(MaxWords) \cup BlankInputs \cup {ScenarioInput, UntidyInput}

ParseFrame ==
    /\ recovery_statistics = InitStatistics
    /\ fallback_cache = {}
    /\ now = 0
    /\ faults = {}
    /\ call = NoCall
    /\ result = NoResult
    /\ tstate = IdleThreads
    /\ response = IdleResponse
    /\ blocks = IdleAdaptation
    /\ signal = IdleSignal
    /\ adapted = IdleAdaptation
    /\ output = IdleAdaptation
    /\ outcome = "idle"
    /\ FormatterIdle

ParseInit ==
    /\ ParseFrame
    /\ pc = "parse"
    /\ ncalls = 0
    /\ user_input \in ParseInputs
    /\ parsed = NoParse
    /\ parsing_history = <<>>

\* parser.parse_user_preference(user_input)
ParseUserPreference ==
    /\ pc = "parse"
    /\ \E out \in {parse_user_preference(user_input, parsing_history)} :
         /\ parsed' = out.result
         /\ parsing_history' = out.history
    /\ pc' = "parsed"
    /\ ncalls' = ncalls + 1
    /\ UNCHANGED <<recovery_statistics, fallback_cache, now, faults, call, result, tstate,
                   response, blocks, signal, adapted, output, outcome, user_input,
                   formatted_response, preference_result>>

\* the words that are primary visual keywords
KeywordWords == {w \in DOMAIN Vocabulary : \E k \in DOMAIN VisualPrimary : VisualPrimary[k] = Vocabulary[w]}

\* the same parser is given the input with one more primary visual keyword at its end
ParseExtended ==
    /\ pc = "parsed"
    /\ \E w \in KeywordWords :
         LET longer == IF user_input = <<>> THEN Vocabulary[w]
                       ELSE user_input \o <<" ">> \o Vocabulary[w]
         IN  \E out \in {parse_user_preference(longer, parsing_history)} :
               /\ user_input' = longer
               /\ parsed' = out.result
               /\ parsing_history' = out.history
    /\ pc' = "extended"
    /\ ncalls' = ncalls + 1
    /\ UNCHANGED <<recovery_statistics, fallback_cache, now, faults, call, result, tstate,
                   response, blocks, signal, adapted, output, outcome,
                   formatted_response, preference_result>>

ParseNext == ParseUserPreference \/ ParseExtended

ParseSpec == ParseInit /\ [][ParseNext]_vars

(***************************************************************************)
(* Claims about the preference parser                                      *)
(***************************************************************************)

Parsed == pc \in {"parsed", "extended"}

Blank(text) == text = <<>> \/ Strip(text) = <<>>

Range(seq) == {seq[k] : k \in DOMAIN seq}

\* C15: for every input string the result's class is one of visual, text,
\* mixed and unclear and its rounded confidence lies in [0, 1]; a confidence
\* of 0 implies the class unclear; an empty or whitespace-only input yields
\* unclear with confidence 0 and empty evidence.
C15_ParseResultWellFormed ==
    Parsed =>
        /\ parsed.preference \in {"visual", "text", "mixed", "unclear"}
        /\ parsed.confidence \in 0..100
        /\ parsed.confidence = 0 => parsed.preference = "unclear"
        /\ Blank(user_input) =>
              /\ parsed.preference = "unclear"
              /\ parsed.confidence = 0
              /\ parsed.keywords_found = [visual |-> <<>>, text |-> <<>>]

\* a whitespace-only input has been parsed, and so has an input without any
\* keyword
C15_Witness ==
    /\ pc = "parsed"
    /\ parsed.preference = "unclear"
    /\ parsed.confidence = 0
    /\ user_input \in BlankInputs \ {<<>>}

C15_WitnessNoKeyword ==
    /\ pc = "parsed"
    /\ ~Blank(user_input)
    /\ parsed.preference = "unclear"

OneMoreVisualKeyword ==
    /\ pc = "parsed" /\ pc' = "extended"
    /\ Range(parsed.keywords_found.visual) \subseteq Range(parsed'.keywords_found.visual)
    /\ \E kw \in Range(VisualPrimary) :
         Range(parsed'.keywords_found.visual) \ Range(parsed.keywords_found.visual) = {kw}
    /\ parsed'.keywords_found.text = parsed.keywords_found.text
    /\ \E before \in {clean_input(user_input)}, after \in {clean_input(user_input')} :
         /\ analyze_context_phrases(after) = analyze_context_phrases(before)
         /\ analyze_intensity(after).found_modifiers = analyze_intensity(before).found_modifiers
         /\ check_negations(after) = check_negations(before)

\* C17: adding one more primary visual keyword to an input, all other
\* matched keywords, phrases, modifiers and negations unchanged, never
\* decreases the visual score the parser computes.
C17_KeywordNeverLowersVisualScore ==
    [][OneMoreVisualKeyword => parsed'.visual_score >= parsed.visual_score]_vars

\* a negated text input has been given the keyword "chart": the visual score
\* is the exchanged text score
C17_Witness ==
    /\ pc = "extended"
    /\ parsed.has_negations
    /\ parsed.keywords_found.visual = <<VisualPrimary[1]>>
    /\ parsed.keywords_found.text # <<>>
    /\ parsed.visual_score > 0

\* C18: for the input "show me charts and graphs" the result is class
\* visual with confidence >= 0.6 and a non-empty visual evidence list.
C18_ChartsAndGraphsScenario ==
    (Parsed /\ user_input = ScenarioInput) =>
        /\ parsed.preference = "visual"
        /\ parsed.confidence >= 60
        /\ parsed.keywords_found.visual # <<>>

C18_Witness ==
    /\ pc = "parsed"
    /\ user_input = ScenarioInput
    /\ parsed.preference = "visual"
    /\ parsed.intensity = "low"

(***************************************************************************)
(* Claims about missing visual content                                     *)
(***************************************************************************)

\* the call hands over an answer with text and no chart, and a visual
\* signal of confidence 0.9
TextWithoutChart ==
    /\ call.input.t = "dict"
    /\ InputGet(call.input, "text_response")
    /\ ~InputGet(call.input, "chart_data")
    /\ call.preferences.t = "dict"
    /\ call.preferences.preference = "visual"
    /\ call.preferences.confKind = "num"
    /\ call.preferences.confidence = 900

\* C19: when the signal is visual with confidence 0.9 and the answer handed
\* over has text but no chart, handle_edge_cases reports the case
\* missing_content as handled and returns an explanatory user message, not
\* the pass-through.
C19_MissingVisualContentReported ==
    (pc = "done" /\ faults = {} /\ TextWithoutChart) =>
        /\ result.handled
        /\ result.case_detected = "missing_content"
        /\ result.user_message \notin {Absent, PassThrough.user_message}

-----------------------------------------------------------------------------
(***************************************************************************)
(* PreferenceBasedResponseFormatter: the edge cases of a formatted         *)
(* response.  A content is its parts in order, its length in characters,   *)
(* its length when stripped, and the index of the last '.' among its first *)
(* TruncateAt characters (-1 when there is none).                          *)
(***************************************************************************)

VisualFallbackLength == 517
TextFallbackLength == 628
LowConfidenceLength == 315
VisualEmptyLength == 395
TextEmptyLength == 472
MixedEmptyLength == 372
TruncationNoticeLength == 176
SeparatorLength == 2           \* "\n\n"
MessageMargin == 2             \* a message starts and ends with a line break

FormatConfidence == 60         \* confidence > 0.6
MinTextSections == 2           \* text_sections < 2
LowConfidence == 40            \* confidence < 0.4
ShortContent == 100            \* len(content.strip()) < 100
LongContent == 2000            \* len(content) > 2000
TruncateAt == 1500             \* content[:1500]

NoPeriod == 0 - 1

Content(parts, length, stripped, last_period) ==
    [parts |-> parts, length |-> length, stripped |-> stripped, last_period |-> last_period]

\* a message of the given length, none of its '.' known
Message(part, length) == Content(<<part>>, length, length - MessageMargin, NoPeriod)

\* first + "\n\n" + second
Joined(first, second) ==
    Content(first.parts \o second.parts,
            first.length + SeparatorLength + second.length,
            first.length + SeparatorLength + second.length - MessageMargin,
            first.last_period)

create_visual_fallback_message == Message("visual_fallback", VisualFallbackLength)
create_text_fallback_message == Message("text_fallback", TextFallbackLength)
create_low_confidence_message == Message("low_confidence", LowConfidenceLength)

\* _create_empty_response_fallback
create_empty_response_fallback(preference) ==
    Message("empty_response",
            CASE preference = "visual" -> VisualEmptyLength
              [] preference = "text" -> TextEmptyLength
              [] OTHER -> MixedEmptyLength)

\* _truncate_for_visual_preference
truncate_for_visual_preference(content) ==
    LET truncated == Min(TruncateAt, content.length)
        last_sentence == content.last_period
        kept == IF last_sentence > 0 THEN last_sentence + 1 ELSE truncated
    IN  Content(<<"truncated">> \o <<"truncation_notice">>,
                kept + TruncationNoticeLength,
                kept + TruncationNoticeLength - 1,
                content.last_period)

\* PreferenceBasedResponseFormatter._handle_edge_cases
formatter_handle_edge_cases(response_in, preference, confidence) ==
    LET content == response_in.content
    IN  IF preference = "visual" /\ response_in.chart_count = 0
        THEN [response_in EXCEPT !.content = Joined(create_visual_fallback_message, content),
                                 !.fallback_applied = TRUE]
        ELSE IF preference = "text" /\ response_in.text_sections < MinTextSections
        THEN [response_in EXCEPT !.content = Joined(content, create_text_fallback_message),
                                 !.fallback_applied = TRUE]
        ELSE IF confidence < LowConfidence
        THEN [response_in EXCEPT !.content = Joined(create_low_confidence_message, content),
                                 !.fallback_applied = TRUE]
        ELSE IF content.stripped < ShortContent
        THEN [response_in EXCEPT !.content = create_empty_response_fallback(preference),
                                 !.fallback_applied = TRUE]
        ELSE IF preference = "visual" /\ content.length > LongContent
        THEN [response_in EXCEPT !.content = truncate_for_visual_preference(content),
                                 !.fallback_applied = TRUE]
        ELSE [response_in EXCEPT !.fallback_applied = FALSE]

\* the branch of format_response_by_preference that formats the response
formatting_type(preference, confidence) ==
    IF preference = "visual" /\ confidence > FormatConfidence THEN "visual_priority"
    ELSE IF preference = "text" /\ confidence > FormatConfidence THEN "text_priority"
    ELSE "balanced"

\* the length of the preference indicator every formatted content starts with
IndicatorLength(ftype) ==
    CASE ftype = "visual_priority" -> 53
      [] ftype = "text_priority" -> 59
      [] ftype = "balanced" -> 53

\* the line breaks a formatted content ends with
TrailingBreaks(ftype) == IF ftype = "visual_priority" THEN 1 ELSE 2

DetectedPreferences == {"visual", "text", "mixed"}
DetectedConfidences == {25, 40, 50, 60, 70, 100}

\* characters the formatted content has after its indicator
BodyLengths == {0, 40, 46, 47, 600, 1947, 1948, 3000}
ChartCounts == {0, 2}
TextSectionCounts == {0, 1, 2, 5}
\* where the last '.' of the first TruncateAt characters is: nowhere, or at
\* this index
PeriodIndexes == {NoPeriod, 60, 1200, 1499}

FormattedResponses(preference, confidence) ==
    LET ftype == formatting_type(preference, confidence)
        shapes == {sh \in BodyLengths \X PeriodIndexes : sh[2] < IndicatorLength(ftype) + sh[1]}
    IN  { [formatting_type |-> ftype,
           content |-> Content(<<"formatted">>, IndicatorLength(ftype) + sh[1],
                               IndicatorLength(ftype) + sh[1] - TrailingBreaks(ftype), sh[2]),
           chart_count |-> charts,
           text_sections |-> sections,
           fallback_applied |-> Absent] :
          sh \in shapes, charts \in ChartCounts, sections \in TextSectionCounts }

FormatInit ==
    /\ recovery_statistics = InitStatistics
    /\ fallback_cache = {}
    /\ now = 0
    /\ faults = {}
    /\ call = NoCall
    /\ result = NoResult
    /\ tstate = IdleThreads
    /\ response = IdleResponse
    /\ blocks = IdleAdaptation
    /\ signal = IdleSignal
    /\ adapted = IdleAdaptation
    /\ output = IdleAdaptation
    /\ outcome = "idle"
    /\ ParserIdle
    /\ pc = "detect"
    /\ ncalls = 0
    /\ formatted_response = NoFormatted
    /\ preference_result \in [preference : DetectedPreferences, confidence : DetectedConfidences]

\* format_response_by_preference up to the formatted response
FormatByPreference ==
    /\ pc = "detect"
    /\ formatted_response' \in FormattedResponses(preference_result.preference,
                                                    preference_result.confidence)
    /\ pc' = "formatted"
    /\ UNCHANGED <<recovery_statistics, fallback_cache, now, faults, call, result, ncalls,
                   tstate, response, blocks, signal, adapted, output, outcome,
                   user_input, parsed, parsing_history, preference_result>>

\* formatted_response = self._handle_edge_cases(formatted_response, preference, confidence)
FormatterHandleEdgeCases ==
    /\ pc = "formatted"
    /\ formatted_response' = formatter_handle_edge_cases(formatted_response,
                                  preference_result.preference, preference_result.confidence)
    /\ pc' = "returned"
    /\ UNCHANGED <<recovery_statistics, fallback_cache, now, faults, call, result, ncalls,
                   tstate, response, blocks, signal, adapted, output, outcome,
                   user_input, parsed, parsing_history, preference_result>>

FormatNext == FormatByPreference \/ FormatterHandleEdgeCases

FormatSpec == FormatInit /\ [][FormatNext]_vars

(***************************************************************************)
(* Claims about the formatter's edge cases                                 *)
(***************************************************************************)

Parts(content) == {content.parts[k] : k \in DOMAIN content.parts}

\* the step is the _handle_edge_cases call of a formatted response
EdgeCasesHandled == pc = "formatted" /\ pc' = "returned"

\* C20: whenever the detected preference is visual and the formatted
\* content is longer than 2000 characters, the returned response is the
\* truncated content carrying the 'Response optimized for visual preference'
\* notice and fallback_applied is true, also when there is no chart; and
\* each of the five edge conditions that holds is reflected by its own
\* fallback message.
C20_EveryEdgeConditionReflected ==
    [][EdgeCasesHandled =>
        LET before == formatted_response
            after == formatted_response'
            preference == preference_result.preference
            confidence == preference_result.confidence
        IN  /\ (preference = "visual" /\ before.content.length > LongContent) =>
                  /\ after.fallback_applied = TRUE
                  /\ {"truncated", "truncation_notice"} \subseteq Parts(after.content)
                  /\ after.content.length <= TruncateAt + TruncationNoticeLength
            /\ (preference = "visual" /\ before.chart_count = 0) =>
                  "visual_fallback" \in Parts(after.content)
            /\ (preference = "text" /\ before.text_sections < MinTextSections) =>
                  "text_fallback" \in Parts(after.content)
            /\ confidence < LowConfidence => "low_confidence" \in Parts(after.content)
            /\ before.content.stripped < ShortContent =>
                  "empty_response" \in Parts(after.content)]_vars

(***************************************************************************)
(* Claims about the parser's decision, negation, axes and intensity        *)
(***************************************************************************)

\* the class and the confidence (in hundredths, rounded as the result is)
\* the decision rule gives for final scores v and t in hundredths
Decided(v, t) ==
    IF v + t = 0 THEN <<"unclear", 0>>
    ELSE IF Abs(v - t) < 200
    THEN <<"mixed", IF v + t >= 800 THEN 80 ELSE RoundHundredths(v + t, 1000)>>
    ELSE LET winner == IF v > t THEN v ELSE t
             share == RoundHundredths(winner, IF v + t > 1000 THEN v + t ELSE 1000)
         IN  <<IF v > t THEN "visual" ELSE "text", IF share > 100 THEN 100 ELSE share>>

\* C21: with the final scores v and t: if v + t = 0 the class is unclear
\* with confidence 0; else if |v - t| < 2 the class is mixed with confidence
\* min(0.8, (v + t) / 10); otherwise the class is that of the strictly
\* larger axis with confidence min(1.0, winner / max(v + t, 10)), the
\* confidence being returned rounded to two decimals.
C21_DecisionRule ==
    Parsed => <<parsed.preference, parsed.confidence>>
                 = Decided(parsed.visual_score, parsed.text_score)

\* a mixed result whose confidence is held at 0.8
C21_Witness ==
    /\ pc = "extended"
    /\ parsed.preference = "mixed"
    /\ parsed.visual_score + parsed.text_score > 800
    /\ parsed.confidence = 80

\* the two scores of an input after the intensity multiplier and before the
\* negations are looked at, in hundredths, with the evidence they rest on
ScaledScores(text) ==
    CHOOSE sc \in
        {[visual |-> (a[2].visual_score + a[3].visual_phrase_score
                        + (IF a[4].sentiment_strength > 0 THEN a[4].sentiment_strength ELSE 0))
                     * score_multiplier(a[5].intensity_level),
          text |-> (a[2].text_score + a[3].text_phrase_score)
                     * score_multiplier(a[5].intensity_level),
          negated |-> \E k \in DOMAIN NEGATION_WORDS : Occurs(NEGATION_WORDS[k], a[1]),
          visual_evidence |-> a[2].found_keywords.visual \o a[3].visual_phrases,
          text_evidence |-> a[2].found_keywords.text \o a[3].text_phrases] :
            a \in analyses(text)} : TRUE

\* C22: if a negation token occurs in the normalized input, the final visual
\* score is 0.8 times the intensity-scaled text score and the final text
\* score 0.8 times the intensity-scaled visual score; otherwise the scores
\* are neither exchanged nor dampened; an input with a negation and only
\* visual evidence is never classified visual.
C22_NegationSwapsAndDampens ==
    (Parsed /\ ~Blank(user_input)) =>
        \E sc \in {ScaledScores(user_input)} :
            /\ parsed.has_negations = sc.negated
            /\ sc.negated =>
                  /\ 10 * parsed.visual_score = 8 * sc.text
                  /\ 10 * parsed.text_score = 8 * sc.visual
                  /\ (sc.visual_evidence # <<>> /\ sc.text_evidence = <<>>) =>
                        parsed.preference # "visual"
            /\ ~sc.negated =>
                  /\ parsed.visual_score = sc.visual
                  /\ parsed.text_score = sc.text

\* a negated input with visual evidence only has been classified text
C22_Witness ==
    /\ pc = "parsed"
    /\ parsed.has_negations
    /\ parsed.keywords_found.visual # <<>>
    /\ parsed.keywords_found.text = <<>>
    /\ parsed.visual_score = 0
    /\ parsed.preference = "text"

\* 3 x primary hits + 2 x secondary hits + 4 x context-phrase hits
WeightedHits(primary, secondary, phrases, text) ==
    3 * Len(Found(primary, text)) + 2 * Len(Found(secondary, text))
    + 4 * Len(Found(phrases, text))

\* C23: the axes are scored independently: the visual score before
\* intensity and negation is 3 x primary + 2 x secondary + 4 x phrase hits
\* against the visual tables and the text score the same against the text
\* tables, so text-only evidence never changes the visual score.  Stated on
\* inputs without negation, where the final scores are these times the
\* intensity multiplier.
C23_AxesScoredIndependently ==
    (Parsed /\ ~Blank(user_input) /\ ~parsed.has_negations) =>
        \E cleaned \in {clean_input(user_input)} :
            /\ parsed.visual_score =
                  WeightedHits(VisualPrimary, VisualSecondary, VisualContextPhrases, cleaned)
                  * score_multiplier(parsed.intensity)
            /\ parsed.text_score =
                  WeightedHits(TextPrimary, TextSecondary, TextContextPhrases, cleaned)
                  * score_multiplier(parsed.intensity)

\* C30: an input without any intensity-modifier word has intensity medium
\* and its scores are not scaled (multiplier 1.0); the intensity is high or
\* low only when a modifier of the high or low table occurs in the input.
C30_NoModifierMeansMedium ==
    (Parsed /\ ~Blank(user_input)) =>
        \E cleaned \in {clean_input(user_input)} :
            /\ (Found(HighModifiers, cleaned) \o Found(MediumModifiers, cleaned)
                   \o Found(LowModifiers, cleaned) = <<>>) =>
                  /\ parsed.intensity = "medium"
                  /\ score_multiplier(parsed.intensity) = 100
            /\ parsed.intensity = "high" => Found(HighModifiers, cleaned) # <<>>
            /\ parsed.intensity = "low" => Found(LowModifiers, cleaned) # <<>>

-----------------------------------------------------------------------------
(* ResolveSpec: a sequence of handle_edge_cases calls on one handler, the   *)
(* clock advancing between calls, in which a recovery action or the         *)
(* strategy handlers may raise.                                             *)

ResolveInputs == { StrInput(<<>>, 0), StrInput(<<"a">>, 0) }

ResolvePreferences ==
    { NonePrefs,
      DictPrefs(PV, "visual", "num", 900, 1, 0, FALSE, FALSE),
      DictPrefs({"preference", "confidence"}, "invalid_type", "num", 2000, 0, 0, FALSE, FALSE) }

\* the methods that raise during a call: none, a recovery action, or the
\* strategy handler together with the minimal response handler
ResolveFaults ==
    { {}, {"log_incident"}, {"cache_fallback"}, {"default_mixed", "minimal_response"} }

ResolveInit ==
    /\ recovery_statistics = InitStatistics
    /\ fallback_cache = {}
    /\ now = 0
    /\ faults = {}
    /\ call = NoCall
    /\ result = NoResult
    /\ pc = "idle"
    /\ ncalls = 0
    /\ tstate = IdleThreads
    /\ AdaptIdle

Resolve ==
    /\ ncalls < MaxCalls
    /\ \E x \in ResolveInputs, p \in ResolvePreferences, d \in Delays, f \in ResolveFaults :
         \E r \in {handle_edge_cases(x, p, NoneContext, f, recovery_statistics, fallback_cache, now + d)} :
             /\ now' = now + d
             /\ faults' = f
             /\ call' = Call(x, p, NoneContext)
             /\ result' = r.result
             /\ recovery_statistics' = r.stats
             /\ fallback_cache' = r.cache
    /\ ncalls' = ncalls + 1
    /\ UNCHANGED <<pc, tstate, response, blocks, signal, adapted, output, outcome,
                   user_input, parsed, parsing_history,
                   formatted_response, preference_result>>

ResolveNext == Resolve

ResolveSpec == ResolveInit /\ [][ResolveNext]_vars

\* the sum of the per-strategy usage counts
RECURSIVE UsageSum(_)
UsageSum(usage) ==
    IF DOMAIN usage = {} THEN 0
    ELSE LET k == CHOOSE key \in DOMAIN usage : TRUE
         IN  usage[k] + UsageSum([j \in DOMAIN usage \ {k} |-> usage[j]])

\* C24: over a sequence of calls on one handler, each call adds one to
\* total_edge_cases exactly when at least one rule matched, adds one to
\* successful_recoveries exactly when a rule matched and the result has
\* recovery_successful = true, and leaves successful_recoveries at most
\* total_edge_cases and the per-strategy usage counts summing to
\* total_edge_cases; so the counters equal the numbers of such calls.
C24_StatisticsCountMatchedCalls ==
    [][ ncalls' = ncalls + 1 =>
          \E matched \in {detect_edge_cases(call'.input, call'.preferences, call'.context) # <<>>} :
             /\ recovery_statistics'.total_edge_cases
                   = recovery_statistics.total_edge_cases + (IF matched THEN 1 ELSE 0)
             /\ recovery_statistics'.successful_recoveries
                   = recovery_statistics.successful_recoveries
                       + (IF matched /\ result'.recovery_successful THEN 1 ELSE 0)
             /\ recovery_statistics'.successful_recoveries <= recovery_statistics'.total_edge_cases
             /\ UsageSum(recovery_statistics'.fallback_usage)
                   = recovery_statistics'.total_edge_cases ]_vars

\* two counted calls, one whose recovery failed and one whose recovery
\* succeeded, handled by different strategies
C24_Witness ==
    /\ ncalls = 2
    /\ recovery_statistics.total_edge_cases = 2
    /\ recovery_statistics.successful_recoveries = 1
    /\ Cardinality(DOMAIN recovery_statistics.fallback_usage) = 2
    /\ result.recovery_successful


\* C26: whatever calls were made and however much time has passed, the
\* fallback cache that get_statistics counts holds no entry whose timestamp
\* is more than 24 hours old.
C26_NoStaleCacheEntry ==
    \A e \in fallback_cache : now - e.timestamp <= CacheHours * TicksPerHour


-----------------------------------------------------------------------------
(* Properties of the recovery actions of one call. *)

\* the payload the winning rule's strategy produces in this call
WinnerPayload(i) ==
    apply_fallback_strategy(edge_case_rules[i].fallback_strategy,
                            call.input, call.preferences, call.context, faults)

\* the recovery actions of rule i that raise in this call
FailedActions(i) ==
    {k \in 1..Len(edge_case_rules[i].recovery_actions) : edge_case_rules[i].recovery_actions[k] \in faults}

C27_GracefulDegradationReduces ==
    (pc = "done" /\ result.handled /\ result.fallback_applied = "graceful_degradation") =>
        \E sv \in {salvage_preference_data(call.preferences)} :
            /\ result.fallback_data.preference
                  = (IF sv.preference = Absent THEN "mixed" ELSE sv.preference)
            /\ result.fallback_data.intensity = "low"
            /\ result.fallback_data.confidence
                  = ((IF sv.confidence = NoConf THEN DefaultSalvagedConfidence ELSE sv.confidence) * 7) \div 10
            /\ sv.confidence # NoConf => result.fallback_data.confidence <= sv.confidence


-----------------------------------------------------------------------------
(* PipelineSpec: process_comprehensive_personalization parses the request's *)
(* user_input and hands the string, the parser's result and the request's   *)
(* context to handle_edge_cases.  The adaptation and balance steps between  *)
(* the two share no state with them.                                        *)

\* sentences, blank inputs, and one-word inputs followed by an opening brace
PipelineInputs ==
    Sentences(MaxWords) \cup BlankInputs \cup {sentence \o <<" ", "{">> : sentence \in Sentences(1)}

\* request.context: absent, empty, or carrying a user history
PipelineContexts ==
    { NoneContext,
      DictContext({}, 0, 0, 0, NoHistory),
      DictContext({"user_history"}, 0, 0, 0,
                  History({"preferred_format"}, "absent", Absent, NoConf, Absent, "visual")),
      DictContext({"user_history"}, 0, 0, 0,
                  History({"recent_preferences"}, "mapping", "text", 800, "high", Absent)) }

\* the parser's result dict as handle_edge_cases reads it: confidence in
\* thousandths, the lengths of the two keyword lists, a metadata dict with
\* neither parsing_error nor fallback_used
preference_result_of(parse) ==
    DictPrefs({"preference", "confidence", "keywords_found", "intensity", "metadata"},
              parse.preference, "num", parse.confidence * 10,
              Len(parse.keywords_found.visual), Len(parse.keywords_found.text), FALSE, FALSE)

PipelineInit ==
    /\ ParseFrame
    /\ pc = "parse"
    /\ ncalls = 0
    /\ user_input \in PipelineInputs
    /\ parsed = NoParse
    /\ parsing_history = <<>>

\* edge_case_handler.handle_edge_cases(request.user_input, preference_result, request.context)
PipelineHandleEdgeCases ==
    /\ pc = "parsed"
    /\ \E c \in PipelineContexts :
         \E r \in {handle_edge_cases(StrInput(user_input, 0), preference_result_of(parsed), c, faults,
                                      recovery_statistics, fallback_cache, now)} :
             /\ call' = Call(StrInput(user_input, 0), preference_result_of(parsed), c)
             /\ result' = r.result
             /\ recovery_statistics' = r.stats
             /\ fallback_cache' = r.cache
    /\ pc' = "resolved"
    /\ UNCHANGED <<now, faults, ncalls, tstate, response, blocks, signal, adapted, output, outcome,
                   user_input, parsed, parsing_history,
                   formatted_response, preference_result>>

PipelineNext == ParseUserPreference \/ PipelineHandleEdgeCases

PipelineSpec == PipelineInit /\ [][PipelineNext]_vars

\* the context carries no historical preference
NoHistoricalPreference(c) == ~ContextTruthy(c) \/ c.t # "dict" \/ "user_history" \notin c.has

\* C28: when the parser returned unclear with confidence 0 for the input,
\* handle_edge_cases reports a handled edge case, and with no historical
\* preference in the context the class of its fallback signal is not
\* unclear.
C28_UnclearParseIsResolved ==
    (pc = "resolved" /\ parsed.preference = "unclear" /\ parsed.confidence = 0) =>
        /\ result.handled
        /\ NoHistoricalPreference(call.context) => result.fallback_data.preference # "unclear"


-----------------------------------------------------------------------------
(* A preference signal with a missing field. *)

\* the signal is a dict that lacks preference, confidence or intensity and
\* whose confidence, if present, is a number
LacksField(user_preferences) ==
    /\ user_preferences.t = "dict"
    /\ user_preferences.confKind # "str"
    /\ \/ user_preferences.preference = Absent
       \/ user_preferences.confidence = NoConf
       \/ user_preferences.intensity = Absent

\* C29: for a dict answer and a signal that lacks the preference, confidence
\* or intensity field, adapt_response returns the adapted content, adapted
\* as for mixed / 0.5 / medium in place of the missing fields, and not the
\* failure fallback.
C29_MissingFieldsDefaulted ==
    (pc = "responded" /\ response.t = "dict" /\ LacksField(signal)) =>
        /\ outcome = "adapted"
        /\ adapted = apply_preference_adaptations(
                         blocks, Signal(GetPreference(signal), GetConfidence(signal), GetIntensity(signal)))


=============================================================================
